---- MODULE Spec2Model ----
(***************************************************************************)
(* The F1 data servers of the repository (server.py, claude_server.py,     *)
(* claude_server_generic.py, claude_server_resources.py,                   *)
(* claude_server_prompts.py) as one state machine.  A run serves ONE of    *)
(* the five server files (variable "variant"); the module-level snapshot   *)
(* F1_DATA, the data file on disk and the last response are the state.     *)
(* The two clients (claude_api.py, gpt_client.py) are a second state       *)
(* machine, ClientSpec, that launches server.py and calls its tools.       *)
(*                                                                         *)
(* Python values are tagged records [t |-> type, v |-> payload]; a dict is *)
(* a sequence of <<key, value>> pairs in insertion order, as in CPython.   *)
(* An exception that leaves a function is the value [t |-> "raise", ...].  *)
(* JSON text is a sequence of tokens; json.dumps and json.loads are the    *)
(* serialiser and the parser over these tokens.                            *)
(***************************************************************************)
EXTENDS Integers, Sequences, FiniteSets, TLC

VARIABLES variant, proc, file, F1_DATA, last, calls, streak,
          script, argv, api_key, pc, question, response, log

\* the state of a client (claude_api.py, gpt_client.py): the file run, its
\* command line, whether OPENAI_API_KEY is configured, where its main() is,
\* the question read, the part of the model's reply still to be handled, and
\* what it has done since it last read a line
cvars == <<script, argv, api_key, pc, question, response, log>>

vars == <<variant, proc, file, F1_DATA, last, calls, streak, cvars>>

\* Number of invocations a run of the model handles.
MaxCalls == 2

(***************************************************************************)
(* Python values                                                           *)
(***************************************************************************)
JInt(n) == [t |-> "int", v |-> n]

JStr(s) == [t |-> "str", v |-> s]

JFloat(s) == [t |-> "float", v |-> s]

JBool(b) == [t |-> "bool", v |-> b]

JNull == [t |-> "null", v |-> "None"]

JList(items) == [t |-> "list", v |-> items]

JDict(pairs) == [t |-> "dict", v |-> pairs]

Raise(type, msg) == [t |-> "raise", v |-> type, msg |-> msg]

IsRaise(x) == x.t = "raise"

\* list(d.keys()) as a sequence of strings
DictKeys(d) == [i \in 1..Len(d.v) |-> d.v[i][1]]

HasKey(d, k) == \E i \in 1..Len(d.v) : d.v[i][1] = k

Lookup(d, k) == d.v[CHOOSE i \in 1..Len(d.v) : d.v[i][1] = k][2]

\* d[k] = v on a dict: an existing key keeps its position
DictSet(pairs, k, val) ==
    IF \E i \in 1..Len(pairs) : pairs[i][1] = k
    THEN [i \in 1..Len(pairs) |-> IF pairs[i][1] = k THEN <<k, val>> ELSE pairs[i]]
    ELSE Append(pairs, <<k, val>>)

\* c[k] with a str key k
GetItem(c, k) ==
    CASE c.t = "raise" -> c
      [] c.t = "dict" ->
           IF HasKey(c, k) THEN Lookup(c, k) ELSE Raise("KeyError", "'" \o k \o "'")
      [] c.t = "list" ->
           Raise("TypeError", "list indices must be integers or slices, not str")
      [] c.t = "str" ->
           Raise("TypeError", "string indices must be integers, not 'str'")
      [] c.t = "null" ->
           Raise("TypeError", "'NoneType' object is not subscriptable")
      [] OTHER ->
           Raise("TypeError", "'" \o c.t \o "' object is not subscriptable")

\* k in c with a str key k
Contains(c, k) ==
    CASE c.t = "raise" -> c
      [] c.t = "dict" -> JBool(HasKey(c, k))
      [] c.t = "list" ->
           JBool(\E i \in 1..Len(c.v) : c.v[i].t = "str" /\ c.v[i].v = k)
      [] OTHER ->
           Raise("TypeError", "argument of type '" \o c.t \o "' is not iterable")

\* c.get(k, default)
DictGet(c, k, default) ==
    CASE c.t = "raise" -> c
      [] c.t = "dict" -> IF HasKey(c, k) THEN Lookup(c, k) ELSE default
      [] OTHER ->
           Raise("AttributeError", "'" \o c.t \o "' object has no attribute 'get'")

\* list(c.keys())
KeysList(c) ==
    CASE c.t = "raise" -> c
      [] c.t = "dict" -> JList([i \in 1..Len(c.v) |-> JStr(c.v[i][1])])
      [] OTHER ->
           Raise("AttributeError", "'" \o c.t \o "' object has no attribute 'keys'")

\* sep.join(strings)
RECURSIVE PyJoin(_, _)
PyJoin(sep, strs) ==
    IF Len(strs) = 0 THEN ""
    ELSE IF Len(strs) = 1 THEN strs[1]
    ELSE strs[1] \o sep \o PyJoin(sep, Tail(strs))

\* str(x) as an f-string interpolates it
PyStr(x) ==
    CASE x.t = "int" -> ToString(x.v)
      [] x.t = "str" -> x.v
      [] x.t = "float" -> x.v
      [] x.t = "bool" -> IF x.v THEN "True" ELSE "False"
      [] OTHER -> "None"

(***************************************************************************)
(* JSON text: tokens, json.dumps, json.loads                               *)
(***************************************************************************)
Punct(c) == [k |-> "p", v |-> c]

StrTok(s) == [k |-> "s", v |-> s]

NumTok(ds) == [k |-> "n", v |-> ds]

FloatTok(s) == [k |-> "f", v |-> s]

WordTok(w) == [k |-> "w", v |-> w]

\* decimal digits of a natural number, most significant first
RECURSIVE Digits(_)
Digits(n) == IF n < 10 THEN <<n>> ELSE Append(Digits(n \div 10), n % 10)

RECURSIVE DigitsToInt(_)
DigitsToInt(ds) ==
    IF Len(ds) = 0 THEN 0
    ELSE 10 * DigitsToInt(SubSeq(ds, 1, Len(ds) - 1)) + ds[Len(ds)]

RECURSIVE json_dumps(_)
RECURSIVE DumpItems(_)
RECURSIVE DumpMembers(_)
json_dumps(x) ==
    CASE x.t = "int" -> <<NumTok(Digits(x.v))>>
      [] x.t = "str" -> <<StrTok(x.v)>>
      [] x.t = "float" -> <<FloatTok(x.v)>>
      [] x.t = "bool" -> <<WordTok(IF x.v THEN "true" ELSE "false")>>
      [] x.t = "null" -> <<WordTok("null")>>
      [] x.t = "list" -> <<Punct("[")>> \o DumpItems(x.v) \o <<Punct("]")>>
      [] x.t = "dict" -> <<Punct("{")>> \o DumpMembers(x.v) \o <<Punct("}")>>

DumpItems(items) ==
    IF Len(items) = 0 THEN <<>>
    ELSE IF Len(items) = 1 THEN json_dumps(items[1])
    ELSE json_dumps(items[1]) \o <<Punct(",")>> \o DumpItems(Tail(items))

DumpMembers(pairs) ==
    IF Len(pairs) = 0 THEN <<>>
    ELSE LET one == <<StrTok(pairs[1][1]), Punct(":")>> \o json_dumps(pairs[1][2])
         IN  IF Len(pairs) = 1 THEN one
             ELSE one \o <<Punct(",")>> \o DumpMembers(Tail(pairs))

ParseFail == [ok |-> FALSE]

ParseOk(val, next) == [ok |-> TRUE, val |-> val, next |-> next]

IsPunct(toks, i, c) == i <= Len(toks) /\ toks[i].k = "p" /\ toks[i].v = c

RECURSIVE ParseValue(_, _)
RECURSIVE ParseItems(_, _, _)
RECURSIVE ParseMembers(_, _, _)
\* the JSON value that starts at token i
ParseValue(toks, i) ==
    IF i > Len(toks) THEN ParseFail
    ELSE LET tk == toks[i] IN
         CASE tk.k = "n" -> ParseOk(JInt(DigitsToInt(tk.v)), i + 1)
           [] tk.k = "s" -> ParseOk(JStr(tk.v), i + 1)
           [] tk.k = "f" -> ParseOk(JFloat(tk.v), i + 1)
           [] tk.k = "w" ->
                IF tk.v = "null" THEN ParseOk(JNull, i + 1)
                ELSE ParseOk(JBool(tk.v = "true"), i + 1)
           [] tk.k = "p" /\ tk.v = "[" ->
                IF IsPunct(toks, i + 1, "]") THEN ParseOk(JList(<<>>), i + 2)
                ELSE ParseItems(toks, i + 1, <<>>)
           [] tk.k = "p" /\ tk.v = "{" ->
                IF IsPunct(toks, i + 1, "}") THEN ParseOk(JDict(<<>>), i + 2)
                ELSE ParseMembers(toks, i + 1, <<>>)
           [] OTHER -> ParseFail

\* the elements of an array from token i on, acc holding those before
ParseItems(toks, i, acc) ==
    LET e == ParseValue(toks, i) IN
    IF ~e.ok THEN ParseFail
    ELSE IF IsPunct(toks, e.next, ",")
         THEN ParseItems(toks, e.next + 1, Append(acc, e.val))
    ELSE IF IsPunct(toks, e.next, "]")
         THEN ParseOk(JList(Append(acc, e.val)), e.next + 1)
    ELSE ParseFail

\* the members of an object from token i on, acc holding those before
ParseMembers(toks, i, acc) ==
    IF ~(i <= Len(toks) /\ toks[i].k = "s" /\ IsPunct(toks, i + 1, ":"))
    THEN ParseFail
    ELSE LET e == ParseValue(toks, i + 2) IN
         IF ~e.ok THEN ParseFail
         ELSE IF IsPunct(toks, e.next, ",")
              THEN ParseMembers(toks, e.next + 1, DictSet(acc, toks[i].v, e.val))
         ELSE IF IsPunct(toks, e.next, "}")
              THEN ParseOk(JDict(DictSet(acc, toks[i].v, e.val)), e.next + 1)
         ELSE ParseFail

json_loads(toks) ==
    LET r == ParseValue(toks, 1) IN
    IF r.ok /\ r.next = Len(toks) + 1 THEN r.val
    ELSE Raise("JSONDecodeError", "Expecting value")

(***************************************************************************)
(* Building Python dicts whose values may raise while being evaluated      *)
(***************************************************************************)
AnyRaise(vals) == \E i \in 1..Len(vals) : IsRaise(vals[i])

FirstRaise(vals) ==
    vals[CHOOSE i \in 1..Len(vals) :
            IsRaise(vals[i]) /\ \A j \in 1..(i - 1) : ~IsRaise(vals[j])]

\* a dict display {k1: e1, k2: e2, ...}: the first ei that raises ends it
MkDict(pairs) ==
    LET vals == [i \in 1..Len(pairs) |-> pairs[i][2]] IN
    IF AnyRaise(vals) THEN FirstRaise(vals) ELSE JDict(pairs)

\* a > b
PyGt(a, b) ==
    CASE IsRaise(a) -> a
      [] IsRaise(b) -> b
      [] a.t = "int" /\ b.t = "int" -> JBool(a.v > b.v)
      [] OTHER ->
           Raise("TypeError", "'>' not supported between instances of '"
                                \o a.t \o "' and '" \o b.t \o "'")

(***************************************************************************)
(* Data: the records of server.py's built-in F1_DATA, and the documents    *)
(* the data file f1_data.json may hold                                     *)
(***************************************************************************)
DriverRec(name, team, nat, wc, wins, poles, fl, pts) ==
    JDict(<< <<"name", JStr(name)>>, <<"team", JStr(team)>>,
             <<"nationality", JStr(nat)>>, <<"world_championships", JInt(wc)>>,
             <<"race_wins", JInt(wins)>>, <<"pole_positions", JInt(poles)>>,
             <<"fastest_laps", JInt(fl)>>, <<"current_points", JInt(pts)>> >>)

TeamRec(name, base, principal, cc, engine, founded) ==
    JDict(<< <<"name", JStr(name)>>, <<"base", JStr(base)>>,
             <<"team_principal", JStr(principal)>>,
             <<"constructors_championships", JInt(cc)>>,
             <<"engine_supplier", JStr(engine)>>, <<"founded", JInt(founded)>> >>)

CircuitRec(name, location, km, laps, record, holder, first) ==
    JDict(<< <<"name", JStr(name)>>, <<"location", JStr(location)>>,
             <<"length_km", JFloat(km)>>, <<"laps", JInt(laps)>>,
             <<"lap_record", JStr(record)>>, <<"lap_record_holder", JStr(holder)>>,
             <<"first_gp", JInt(first)>> >>)

MaxVerstappen ==
    DriverRec("Max Verstappen", "Red Bull Racing", "Dutch", 4, 63, 40, 33, 0)

LewisHamilton ==
    DriverRec("Lewis Hamilton", "Ferrari", "British", 7, 105, 104, 67, 0)

CharlesLeclerc ==
    DriverRec("Charles Leclerc", "Ferrari", "Monegasque", 0, 7, 25, 9, 0)

RedBull ==
    TeamRec("Red Bull Racing", "Milton Keynes, UK", "Christian Horner", 6,
            "Honda RBPT", 2005)

Ferrari ==
    TeamRec("Scuderia Ferrari", "Maranello, Italy", "Fred Vasseur", 16,
            "Ferrari", 1950)

Mercedes ==
    TeamRec("Mercedes-AMG Petronas", "Brackley, UK", "Toto Wolff", 8,
            "Mercedes", 2010)

Monaco ==
    CircuitRec("Circuit de Monaco", "Monte Carlo, Monaco", "3.337", 78,
               "1:12.909", "Lewis Hamilton", 1950)

Silverstone ==
    CircuitRec("Silverstone Circuit", "Silverstone, UK", "5.891", 52,
               "1:27.097", "Max Verstappen", 1950)

\* server.py's module-level F1_DATA
BUILTIN_F1_DATA ==
    JDict(<< <<"drivers", JDict(<< <<"max_verstappen", MaxVerstappen>>,
                                   <<"lewis_hamilton", LewisHamilton>>,
                                   <<"charles_leclerc", CharlesLeclerc>> >>)>>,
             <<"teams", JDict(<< <<"red_bull", RedBull>>, <<"ferrari", Ferrari>>,
                                 <<"mercedes", Mercedes>> >>)>>,
             <<"circuits", JDict(<< <<"monaco", Monaco>>,
                                    <<"silverstone", Silverstone>> >>)>> >>)

\* what load_f1_data returns for a missing or unparsable file
EmptySnapshot ==
    JDict(<< <<"drivers", JDict(<<>>)>>, <<"teams", JDict(<<>>)>>,
             <<"circuits", JDict(<<>>)>> >>)

\* a second well-formed document: an id the built-in data lacks, two ids it
\* has in another order and with other values (level on championships and
\* poles, each ahead on one of the other statistics), one team, the
\* circuits in the other order
DocAlt ==
    JDict(<< <<"drivers",
               JDict(<< <<"michael_schumacher",
                          DriverRec("Michael Schumacher", "Retired", "German",
                                    7, 91, 68, 77, 0)>>,
                        <<"lewis_hamilton",
                          DriverRec("Lewis Hamilton", "Ferrari", "British",
                                    7, 105, 104, 67, 12)>>,
                        <<"max_verstappen",
                          DriverRec("Max Verstappen", "Red Bull Racing", "Dutch",
                                    7, 99, 104, 70, 30)>> >>)>>,
             <<"teams", JDict(<< <<"ferrari", Ferrari>> >>)>>,
             <<"circuits", JDict(<< <<"silverstone", Silverstone>>,
                                    <<"monaco", Monaco>> >>)>> >>)

\* valid JSON without the teams and circuits tables, and with a driver
\* record that lacks two of the statistics
DocDriversOnly ==
    JDict(<< <<"drivers",
               JDict(<< <<"max_verstappen",
                          JDict(<< <<"name", JStr("Max Verstappen")>>,
                                   <<"team", JStr("Red Bull Racing")>>,
                                   <<"nationality", JStr("Dutch")>>,
                                   <<"world_championships", JInt(4)>>,
                                   <<"race_wins", JInt(63)>>,
                                   <<"pole_positions", JInt(40)>> >>)>>,
                        <<"lewis_hamilton", LewisHamilton>> >>)>> >>)

FullText == json_dumps(BUILTIN_F1_DATA)

FileNames ==
    {"missing", "undecodable", "truncated", "full", "alt", "no_tables",
     "array", "drivers_only"}

\* what is on disk at the path of f1_data.json under each name
Disk(fname) ==
    CASE fname = "missing" -> [exists |-> FALSE, utf8 |-> FALSE, text |-> <<>>]
      [] fname = "undecodable" -> [exists |-> TRUE, utf8 |-> FALSE, text |-> <<>>]
      [] fname = "truncated" ->
           [exists |-> TRUE, utf8 |-> TRUE, text |-> SubSeq(FullText, 1, 9)]
      [] fname = "full" -> [exists |-> TRUE, utf8 |-> TRUE, text |-> FullText]
      [] fname = "alt" ->
           [exists |-> TRUE, utf8 |-> TRUE, text |-> json_dumps(DocAlt)]
      [] fname = "no_tables" ->
           [exists |-> TRUE, utf8 |-> TRUE, text |-> json_dumps(JDict(<<>>))]
      [] fname = "array" ->
           [exists |-> TRUE, utf8 |-> TRUE, text |-> json_dumps(JList(<<>>))]
      [] fname = "drivers_only" ->
           [exists |-> TRUE, utf8 |-> TRUE, text |-> json_dumps(DocDriversOnly)]

\* load_f1_data of claude_server.py: open, json.load, two except clauses
load_f1_data(fname) ==
    LET f == Disk(fname) IN
    IF ~f.exists THEN EmptySnapshot
    ELSE IF ~f.utf8
         THEN Raise("UnicodeDecodeError", "'utf-8' codec can't decode byte")
    ELSE LET doc == json_loads(f.text) IN
         IF IsRaise(doc) THEN EmptySnapshot ELSE doc

(***************************************************************************)
(* Requests the model sends                                                *)
(***************************************************************************)
DriverIds == {"max_verstappen", "lewis_hamilton", "unknown_id"}

TeamIds == {"ferrari", "unknown_id"}

CircuitIds == {"monaco", "unknown_id"}

Variants == {"server", "claude_server", "generic", "resources", "prompts"}

\* the arguments object of a call
NoArgs == JDict(<<>>)

Args1(k, val) == JDict(<< <<k, JStr(val)>> >>)

Args2(k1, v1, k2, v2) == JDict(<< <<k1, JStr(v1)>>, <<k2, JStr(v2)>> >>)

\* the last event: a call, its arguments, what it returned (or raised), and
\* whether it opened the data file
Event(op, args, out, read) == [op |-> op, args |-> args, out |-> out, read |-> read]

Serving(v) == variant = v /\ proc = "running" /\ calls < MaxCalls

\* streak counts the reloads in a row that replaced the snapshot, with no
\* other call and no edit of the file between them; r is what reload_data did
Streak(n, r) == IF r.read /\ ~IsRaise(r.out) THEN n + 1 ELSE 0

(***************************************************************************)
(* claude_server.py                                                        *)
(***************************************************************************)
cs_get_driver_info(F, driver_id) ==
    LET drivers == GetItem(F, "drivers")
        found == Contains(drivers, driver_id)
    IN  IF IsRaise(found) THEN found
        ELSE IF ~found.v
             THEN MkDict(<< <<"error", JStr("Driver '" \o driver_id \o "' not found.")>>,
                            <<"available", KeysList(drivers)>> >>)
        ELSE GetItem(drivers, driver_id)

\* get_team_info with the not-found branch pasted from get_driver_info
cs_get_team_info_pasted(F, team_id) ==
    LET teams == GetItem(F, "teams")
        found == Contains(teams, team_id)
    IN  IF IsRaise(found) THEN found
        ELSE IF ~found.v
             THEN MkDict(<< <<"error", JStr("Team '" \o team_id \o "' not found.")>>,
                            <<"available", KeysList(GetItem(F, "drivers"))>> >>)
        ELSE GetItem(teams, team_id)

cs_get_team_info(F, team_id) ==
    LET teams == GetItem(F, "teams")
        found == Contains(teams, team_id)
    IN  IF IsRaise(found) THEN found
        ELSE IF ~found.v
             THEN MkDict(<< <<"error", JStr("Team '" \o team_id \o "' not found.")>>,
                            <<"available", KeysList(teams)>> >>)
        ELSE GetItem(teams, team_id)

cs_get_circuit_info(F, circuit_id) ==
    LET circuits == GetItem(F, "circuits")
        found == Contains(circuits, circuit_id)
    IN  IF IsRaise(found) THEN found
        ELSE IF ~found.v
             THEN MkDict(<< <<"error", JStr("Circuit '" \o circuit_id \o "' not found.")>>,
                            <<"available", KeysList(circuits)>> >>)
        ELSE GetItem(circuits, circuit_id)

\* compare_stat with >= in its first test
cs_compare_stat_ge(stat1, stat2) ==
    LET ge == PyGt(stat1, stat2)
        lt == PyGt(stat2, stat1)
    IN  IF IsRaise(ge) THEN ge
        ELSE IF IsRaise(lt) THEN lt
        ELSE IF ~lt.v THEN JStr("driver1")
        ELSE JStr("driver2")

\* the helper nested in compare_drivers
cs_compare_stat(stat1, stat2) ==
    LET gt == PyGt(stat1, stat2) IN
    IF IsRaise(gt) THEN gt
    ELSE IF gt.v THEN JStr("driver1")
    ELSE LET lt == PyGt(stat2, stat1) IN
         IF IsRaise(lt) THEN lt
         ELSE IF lt.v THEN JStr("driver2")
         ELSE JStr("equal")

cs_compare_drivers(F, driver1_id, driver2_id) ==
    LET drivers == GetItem(F, "drivers")
        in1 == Contains(drivers, driver1_id)
        in2 == Contains(drivers, driver2_id)
        driver1 == GetItem(drivers, driver1_id)
        driver2 == GetItem(drivers, driver2_id)
        stat(s) == cs_compare_stat(GetItem(driver1, s), GetItem(driver2, s))
        notFound == JDict(<< <<"error", JStr("One or both driver IDs not found.")>> >>)
    IN  IF IsRaise(in1) THEN in1
        ELSE IF ~in1.v THEN notFound
        ELSE IF IsRaise(in2) THEN in2
        ELSE IF ~in2.v THEN notFound
        ELSE MkDict(<< <<"driver1", GetItem(driver1, "name")>>,
                       <<"driver2", GetItem(driver2, "name")>>,
                       <<"comparisons",
                         MkDict(<< <<"world_championships", stat("world_championships")>>,
                                   <<"race_wins", stat("race_wins")>>,
                                   <<"pole_positions", stat("pole_positions")>>,
                                   <<"fastest_laps", stat("fastest_laps")>> >>)>> >>)

cs_list_all_data(F) ==
    MkDict(<< <<"drivers", KeysList(GetItem(F, "drivers"))>>,
              <<"teams", KeysList(GetItem(F, "teams"))>>,
              <<"circuits", KeysList(GetItem(F, "circuits"))>> >>)

\* reload_data that ignores its confirm flag
cs_reload_data_unconditional(F, fname, confirm) ==
    LET loaded == load_f1_data(fname) IN
    IF IsRaise(loaded)
    THEN [out |-> loaded, data |-> F, read |-> TRUE]
    ELSE [out |-> JStr("F1 data reloaded successfully."),
          data |-> loaded, read |-> TRUE]

\* reload_data(confirm): what it returns, the F1_DATA it leaves, and whether
\* it opened the file
cs_reload_data(F, fname, confirm) ==
    IF ~confirm
    THEN [out |-> JStr("Reload aborted: please set 'confirm=true' to reload."),
          data |-> F, read |-> FALSE]
    ELSE LET loaded == load_f1_data(fname) IN
         IF IsRaise(loaded)
         THEN [out |-> loaded, data |-> F, read |-> TRUE]
         ELSE [out |-> JStr("F1 data reloaded successfully."),
               data |-> loaded, read |-> TRUE]

\* d.pop(k, None) on the pairs of a dict
DictPop(pairs, k) == SelectSeq(pairs, LAMBDA pair : pair[1] # k)

\* get_driver_info that takes the record out of the table (pop) instead of
\* reading it
cs_GetDriverInfo_popping ==
    /\ Serving("claude_server")
    /\ \E driver_id \in DriverIds :
         /\ last' = Event("get_driver_info", Args1("driver_id", driver_id),
                          cs_get_driver_info(F1_DATA, driver_id), FALSE)
         /\ F1_DATA' = IF F1_DATA.t = "dict" /\ HasKey(F1_DATA, "drivers")
                          /\ Lookup(F1_DATA, "drivers").t = "dict"
                       THEN JDict(DictSet(F1_DATA.v, "drivers",
                                          JDict(DictPop(Lookup(F1_DATA, "drivers").v,
                                                        driver_id))))
                       ELSE F1_DATA
    /\ calls' = calls + 1
    /\ streak' = 0
    /\ UNCHANGED <<cvars, variant, proc, file>>

cs_GetDriverInfo ==
    /\ Serving("claude_server")
    /\ \E driver_id \in DriverIds :
         last' = Event("get_driver_info", Args1("driver_id", driver_id),
                       cs_get_driver_info(F1_DATA, driver_id), FALSE)
    /\ calls' = calls + 1
    /\ streak' = 0
    /\ UNCHANGED <<cvars, variant, proc, file, F1_DATA>>

cs_GetTeamInfo ==
    /\ Serving("claude_server")
    /\ \E team_id \in TeamIds :
         last' = Event("get_team_info", Args1("team_id", team_id),
                       cs_get_team_info(F1_DATA, team_id), FALSE)
    /\ calls' = calls + 1
    /\ streak' = 0
    /\ UNCHANGED <<cvars, variant, proc, file, F1_DATA>>

cs_GetCircuitInfo ==
    /\ Serving("claude_server")
    /\ \E circuit_id \in CircuitIds :
         last' = Event("get_circuit_info", Args1("circuit_id", circuit_id),
                       cs_get_circuit_info(F1_DATA, circuit_id), FALSE)
    /\ calls' = calls + 1
    /\ streak' = 0
    /\ UNCHANGED <<cvars, variant, proc, file, F1_DATA>>

cs_CompareDrivers ==
    /\ Serving("claude_server")
    /\ \E driver1_id \in DriverIds, driver2_id \in DriverIds :
         last' = Event("compare_drivers",
                       Args2("driver1_id", driver1_id, "driver2_id", driver2_id),
                       cs_compare_drivers(F1_DATA, driver1_id, driver2_id), FALSE)
    /\ calls' = calls + 1
    /\ streak' = 0
    /\ UNCHANGED <<cvars, variant, proc, file, F1_DATA>>

cs_ListAllData ==
    /\ Serving("claude_server")
    /\ last' = Event("list_all_data", NoArgs, cs_list_all_data(F1_DATA), FALSE)
    /\ calls' = calls + 1
    /\ streak' = 0
    /\ UNCHANGED <<cvars, variant, proc, file, F1_DATA>>

\* confirm is true, false, or left out (the default False applies)
cs_ReloadData ==
    /\ Serving("claude_server")
    /\ \E given \in {"true", "false", "omitted"} :
         LET confirm == (given = "true")
             args == IF given = "omitted" THEN NoArgs
                     ELSE JDict(<< <<"confirm", JBool(confirm)>> >>)
             r == cs_reload_data(F1_DATA, file, confirm)
         IN  /\ last' = Event("reload_data", args, r.out, r.read)
             /\ F1_DATA' = r.data
             /\ streak' = Streak(streak, r)
    /\ calls' = calls + 1
    /\ UNCHANGED <<cvars, variant, proc, file>>

(***************************************************************************)
(* server.py: built-in data, helper functions, handle_call_tool            *)
(***************************************************************************)
srv_get_driver_info(F, driver_id) ==
    LET drivers == GetItem(F, "drivers")
        found == Contains(drivers, driver_id)
    IN  IF IsRaise(found) THEN found
        ELSE IF found.v
             THEN MkDict(<< <<"success", JBool(TRUE)>>,
                            <<"data", GetItem(drivers, driver_id)>> >>)
        ELSE MkDict(<< <<"success", JBool(FALSE)>>,
                       <<"error", JStr("Driver '" \o driver_id
                                       \o "' not found. Available drivers: "
                                       \o PyJoin(", ", DictKeys(drivers)))>> >>)

srv_get_team_info(F, team_id) ==
    LET teams == GetItem(F, "teams")
        found == Contains(teams, team_id)
    IN  IF IsRaise(found) THEN found
        ELSE IF found.v
             THEN MkDict(<< <<"success", JBool(TRUE)>>,
                            <<"data", GetItem(teams, team_id)>> >>)
        ELSE MkDict(<< <<"success", JBool(FALSE)>>,
                       <<"error", JStr("Team '" \o team_id
                                       \o "' not found. Available teams: "
                                       \o PyJoin(", ", DictKeys(teams)))>> >>)

srv_get_circuit_info(F, circuit_id) ==
    LET circuits == GetItem(F, "circuits")
        found == Contains(circuits, circuit_id)
    IN  IF IsRaise(found) THEN found
        ELSE IF found.v
             THEN MkDict(<< <<"success", JBool(TRUE)>>,
                            <<"data", GetItem(circuits, circuit_id)>> >>)
        ELSE MkDict(<< <<"success", JBool(FALSE)>>,
                       <<"error", JStr("Circuit '" \o circuit_id
                                       \o "' not found. Available circuits: "
                                       \o PyJoin(", ", DictKeys(circuits)))>> >>)

\* an entry of "analysis" that never says "Equal": a1 if s1 >= s2 else a2
srv_more_never_equal(driver1, driver2, s) ==
    LET lt == PyGt(GetItem(driver2, s), GetItem(driver1, s)) IN
    IF IsRaise(lt) THEN lt
    ELSE IF lt.v THEN GetItem(driver2, "name")
    ELSE GetItem(driver1, "name")

\* one entry of "analysis": a1 if s1 > s2 else a2 if s2 > s1 else "Equal"
srv_more(driver1, driver2, s) ==
    LET gt == PyGt(GetItem(driver1, s), GetItem(driver2, s)) IN
    IF IsRaise(gt) THEN gt
    ELSE IF gt.v THEN GetItem(driver1, "name")
    ELSE LET lt == PyGt(GetItem(driver2, s), GetItem(driver1, s)) IN
         IF IsRaise(lt) THEN lt
         ELSE IF lt.v THEN GetItem(driver2, "name")
         ELSE JStr("Equal")

\* the "driver1" / "driver2" entry of the comparison
srv_summary(driver) ==
    MkDict(<< <<"name", GetItem(driver, "name")>>,
              <<"world_championships", GetItem(driver, "world_championships")>>,
              <<"race_wins", GetItem(driver, "race_wins")>>,
              <<"pole_positions", GetItem(driver, "pole_positions")>> >>)

srv_compare_drivers(F, driver1_id, driver2_id) ==
    LET drivers == GetItem(F, "drivers")
        in1 == Contains(drivers, driver1_id)
        in2 == Contains(drivers, driver2_id)
        driver1 == GetItem(drivers, driver1_id)
        driver2 == GetItem(drivers, driver2_id)
        missing(id) == JDict(<< <<"success", JBool(FALSE)>>,
                                <<"error", JStr("Driver '" \o id \o "' not found")>> >>)
    IN  IF IsRaise(in1) THEN in1
        ELSE IF ~in1.v THEN missing(driver1_id)
        ELSE IF IsRaise(in2) THEN in2
        ELSE IF ~in2.v THEN missing(driver2_id)
        ELSE MkDict(<< <<"success", JBool(TRUE)>>,
                       <<"data",
                         MkDict(<< <<"driver1", srv_summary(driver1)>>,
                                   <<"driver2", srv_summary(driver2)>>,
                                   <<"analysis",
                                     MkDict(<< <<"more_championships",
                                                 srv_more(driver1, driver2,
                                                          "world_championships")>>,
                                               <<"more_wins",
                                                 srv_more(driver1, driver2, "race_wins")>>,
                                               <<"more_poles",
                                                 srv_more(driver1, driver2,
                                                          "pole_positions")>> >>)>> >>)>> >>)

srv_list_all_data(F) ==
    MkDict(<< <<"success", JBool(TRUE)>>,
              <<"data", MkDict(<< <<"drivers", KeysList(GetItem(F, "drivers"))>>,
                                  <<"teams", KeysList(GetItem(F, "teams"))>>,
                                  <<"circuits", KeysList(GetItem(F, "circuits"))>> >>)>> >>)

\* what a handler returns: one TextContent holding JSON text
TextContent(tokens) == [t |-> "TextContent", v |-> tokens]

\* the body of the try block: the result the chosen helper gives, or what
\* evaluating the arguments or the helper raises
srv_dispatch(F, request) ==
    LET arg(k) == GetItem(request.arguments, k)
        call1(k, r) == IF IsRaise(arg(k)) THEN arg(k) ELSE r
    IN  IF request.name = "get_driver_info"
        THEN call1("driver_id", srv_get_driver_info(F, arg("driver_id").v))
        ELSE IF request.name = "get_team_info"
        THEN call1("team_id", srv_get_team_info(F, arg("team_id").v))
        ELSE IF request.name = "get_circuit_info"
        THEN call1("circuit_id", srv_get_circuit_info(F, arg("circuit_id").v))
        ELSE IF request.name = "compare_drivers"
        THEN call1("driver1_id",
                   call1("driver2_id",
                         srv_compare_drivers(F, arg("driver1_id").v,
                                             arg("driver2_id").v)))
        ELSE IF request.name = "list_all_data"
        THEN srv_list_all_data(F)
        ELSE JDict(<< <<"success", JBool(FALSE)>>,
                      <<"error", JStr("Unknown tool: " \o request.name)>> >>)

handle_call_tool(F, request) ==
    LET result == srv_dispatch(F, request) IN
    IF IsRaise(result)
    THEN TextContent(json_dumps(JDict(<< <<"success", JBool(FALSE)>>,
                                         <<"error", JStr(result.msg)>> >>)))
    ELSE TextContent(json_dumps(result))

\* the requests sent to server.py: every tool with its arguments present,
\* left out ({}), or with no arguments object at all (None), and two names
\* that are no tool of server.py
SrvArguments(name) ==
    {NoArgs, JNull} \cup
    CASE name = "get_driver_info" -> {Args1("driver_id", d) : d \in DriverIds}
      [] name = "get_team_info" -> {Args1("team_id", d) : d \in TeamIds}
      [] name = "get_circuit_info" -> {Args1("circuit_id", d) : d \in CircuitIds}
      [] name = "compare_drivers" ->
           {Args2("driver1_id", a, "driver2_id", b) : a \in DriverIds, b \in DriverIds}
           \cup {Args1("driver1_id", a) : a \in DriverIds}
      [] OTHER -> {}

SrvToolNames ==
    {"get_driver_info", "get_team_info", "get_circuit_info", "compare_drivers",
     "list_all_data", "reload_data", "get_weather"}

\* a handle_call_tool with a sixth branch: reload_data re-reads the file
\* into F1_DATA and reports success
srv_HandleCallTool_reloading ==
    /\ Serving("server")
    /\ \E name \in SrvToolNames :
         \E arguments \in SrvArguments(name) :
            IF name = "reload_data"
            THEN /\ F1_DATA' = load_f1_data(file)
                 /\ last' = Event(name, arguments,
                                  TextContent(json_dumps(JDict(<< <<"success", JBool(TRUE)>> >>))),
                                  TRUE)
            ELSE /\ F1_DATA' = F1_DATA
                 /\ last' = Event(name, arguments,
                                  handle_call_tool(F1_DATA, [name |-> name,
                                                             arguments |-> arguments]),
                                  FALSE)
    /\ calls' = calls + 1
    /\ streak' = 0
    /\ UNCHANGED <<cvars, variant, proc, file>>

srv_HandleCallTool ==
    /\ Serving("server")
    /\ \E name \in SrvToolNames :
         \E arguments \in SrvArguments(name) :
            last' = Event(name, arguments,
                          handle_call_tool(F1_DATA, [name |-> name,
                                                     arguments |-> arguments]),
                          FALSE)
    /\ calls' = calls + 1
    /\ streak' = 0
    /\ UNCHANGED <<cvars, variant, proc, file, F1_DATA>>

(***************************************************************************)
(* claude_server_resources.py: resources that return JSON text, and tools  *)
(* that read the resources back                                            *)
(***************************************************************************)
\* a Python str that holds JSON text
JText(tokens) == [t |-> "text", v |-> tokens]

\* json.dumps(x, indent=2) where evaluating x may have raised
DumpsOf(x) == IF IsRaise(x) THEN x ELSE JText(json_dumps(x))

\* json.loads(s)
LoadsOf(s) == IF IsRaise(s) THEN s ELSE json_loads(s.v)

\* [entry(id, data) for id, data in table.items()], the first raise ending it
ItemsList(table, entry(_, _)) ==
    IF IsRaise(table) THEN table
    ELSE LET items == [i \in 1..Len(table.v) |-> entry(table.v[i][1], table.v[i][2])]
         IN  IF AnyRaise(items) THEN FirstRaise(items) ELSE JList(items)

\* len(x) of a list
PyLen(x) == IF IsRaise(x) THEN x ELSE JInt(Len(x.v))

res_driver_entry(driver_id, driver_data) ==
    MkDict(<< <<"id", JStr(driver_id)>>,
              <<"name", DictGet(driver_data, "name", JStr(""))>>,
              <<"nationality", DictGet(driver_data, "nationality", JStr(""))>>,
              <<"team", DictGet(driver_data, "current_team", JStr(""))>>,
              <<"championships", DictGet(driver_data, "world_championships", JInt(0))>> >>)

res_list_drivers_resource(F) ==
    LET driver_list == ItemsList(DictGet(F, "drivers", JDict(<<>>)), res_driver_entry)
    IN  DumpsOf(MkDict(<< <<"resource_type", JStr("drivers_list")>>,
                          <<"count", PyLen(driver_list)>>,
                          <<"drivers", driver_list>> >>))

res_team_entry(team_id, team_data) ==
    MkDict(<< <<"id", JStr(team_id)>>,
              <<"name", DictGet(team_data, "name", JStr(""))>>,
              <<"base", DictGet(team_data, "base", JStr(""))>>,
              <<"team_chief", DictGet(team_data, "team_chief", JStr(""))>>,
              <<"championships",
                DictGet(team_data, "constructors_championships", JInt(0))>> >>)

res_list_teams_resource(F) ==
    LET team_list == ItemsList(DictGet(F, "teams", JDict(<<>>)), res_team_entry)
    IN  DumpsOf(MkDict(<< <<"resource_type", JStr("teams_list")>>,
                          <<"count", PyLen(team_list)>>,
                          <<"teams", team_list>> >>))

res_circuit_entry(circuit_id, circuit_data) ==
    MkDict(<< <<"id", JStr(circuit_id)>>,
              <<"name", DictGet(circuit_data, "name", JStr(""))>>,
              <<"location", DictGet(circuit_data, "location", JStr(""))>>,
              <<"country", DictGet(circuit_data, "country", JStr(""))>>,
              <<"length", DictGet(circuit_data, "length", JStr(""))>> >>)

res_list_circuits_resource(F) ==
    LET circuit_list == ItemsList(DictGet(F, "circuits", JDict(<<>>)), res_circuit_entry)
    IN  DumpsOf(MkDict(<< <<"resource_type", JStr("circuits_list")>>,
                          <<"count", PyLen(circuit_list)>>,
                          <<"circuits", circuit_list>> >>))

res_get_driver_resource(F, driver_id) ==
    LET found == Contains(DictGet(F, "drivers", JDict(<<>>)), driver_id) IN
    IF IsRaise(found) THEN found
    ELSE IF ~found.v
         THEN DumpsOf(MkDict(<< <<"error", JStr("Driver '" \o driver_id \o "' not found")>>,
                                <<"available_drivers",
                                  KeysList(DictGet(F, "drivers", JDict(<<>>)))>> >>))
    ELSE DumpsOf(MkDict(<< <<"resource_type", JStr("driver_details")>>,
                           <<"driver_id", JStr(driver_id)>>,
                           <<"data", GetItem(GetItem(F, "drivers"), driver_id)>> >>))

res_get_team_resource(F, team_id) ==
    LET found == Contains(DictGet(F, "teams", JDict(<<>>)), team_id) IN
    IF IsRaise(found) THEN found
    ELSE IF ~found.v
         THEN DumpsOf(MkDict(<< <<"error", JStr("Team '" \o team_id \o "' not found")>>,
                                <<"available_teams",
                                  KeysList(DictGet(F, "teams", JDict(<<>>)))>> >>))
    ELSE DumpsOf(MkDict(<< <<"resource_type", JStr("team_details")>>,
                           <<"team_id", JStr(team_id)>>,
                           <<"data", GetItem(GetItem(F, "teams"), team_id)>> >>))

res_get_circuit_resource(F, circuit_id) ==
    LET found == Contains(DictGet(F, "circuits", JDict(<<>>)), circuit_id) IN
    IF IsRaise(found) THEN found
    ELSE IF ~found.v
         THEN DumpsOf(MkDict(<< <<"error",
                                  JStr("Circuit '" \o circuit_id \o "' not found")>>,
                                <<"available_circuits",
                                  KeysList(DictGet(F, "circuits", JDict(<<>>)))>> >>))
    ELSE DumpsOf(MkDict(<< <<"resource_type", JStr("circuit_details")>>,
                           <<"circuit_id", JStr(circuit_id)>>,
                           <<"data", GetItem(GetItem(F, "circuits"), circuit_id)>> >>))

\* the tail without the unwrapping of "data"
res_from_resource_whole(resource_data) == LoadsOf(resource_data)

\* the tail shared by the three get_*_info tools: parse the resource's text,
\* hand back an error object whole, else its "data" member
res_from_resource(resource_data) ==
    LET resource_json == LoadsOf(resource_data)
        isError == Contains(resource_json, "error")
    IN  IF IsRaise(isError) THEN isError
        ELSE IF isError.v THEN resource_json
        ELSE GetItem(resource_json, "data")

res_get_driver_info(F, driver_id) ==
    res_from_resource(res_get_driver_resource(F, driver_id))

res_get_team_info(F, team_id) ==
    res_from_resource(res_get_team_resource(F, team_id))

res_get_circuit_info(F, circuit_id) ==
    res_from_resource(res_get_circuit_resource(F, circuit_id))

\* the same text as compare_drivers of claude_server.py
res_compare_drivers(F, driver1_id, driver2_id) ==
    cs_compare_drivers(F, driver1_id, driver2_id)

\* [x["id"] for x in listing[key]]
res_ids(listing, key) ==
    LET entries == GetItem(listing, key) IN
    IF IsRaise(entries) THEN entries
    ELSE LET ids == [i \in 1..Len(entries.v) |-> GetItem(entries.v[i], "id")]
         IN  IF AnyRaise(ids) THEN FirstRaise(ids) ELSE JList(ids)

\* list_all_data reads the three list resources one after the other; Fd, Ft
\* and Fc are F1_DATA as each of them finds it
res_list_all_data(Fd, Ft, Fc) ==
    LET drivers_data == res_list_drivers_resource(Fd)
        teams_data == res_list_teams_resource(Ft)
        circuits_data == res_list_circuits_resource(Fc)
        texts == <<drivers_data, teams_data, circuits_data>>
        jsons == <<LoadsOf(drivers_data), LoadsOf(teams_data), LoadsOf(circuits_data)>>
    IN  IF AnyRaise(texts) THEN FirstRaise(texts)
        ELSE IF AnyRaise(jsons) THEN FirstRaise(jsons)
        ELSE MkDict(<< <<"drivers", res_ids(jsons[1], "drivers")>>,
                       <<"teams", res_ids(jsons[2], "teams")>>,
                       <<"circuits", res_ids(jsons[3], "circuits")>> >>)

\* reload_data(): no confirmation in this file
res_reload_data(F, fname) ==
    LET loaded == load_f1_data(fname) IN
    IF IsRaise(loaded)
    THEN [out |-> loaded, data |-> F, read |-> TRUE]
    ELSE [out |-> JStr("F1 data reloaded successfully."), data |-> loaded, read |-> TRUE]

res_ReadDrivers ==
    /\ Serving("resources")
    /\ last' = Event("f1://drivers", NoArgs, res_list_drivers_resource(F1_DATA), FALSE)
    /\ calls' = calls + 1
    /\ streak' = 0
    /\ UNCHANGED <<cvars, variant, proc, file, F1_DATA>>

res_ReadTeams ==
    /\ Serving("resources")
    /\ last' = Event("f1://teams", NoArgs, res_list_teams_resource(F1_DATA), FALSE)
    /\ calls' = calls + 1
    /\ streak' = 0
    /\ UNCHANGED <<cvars, variant, proc, file, F1_DATA>>

res_ReadCircuits ==
    /\ Serving("resources")
    /\ last' = Event("f1://circuits", NoArgs, res_list_circuits_resource(F1_DATA), FALSE)
    /\ calls' = calls + 1
    /\ streak' = 0
    /\ UNCHANGED <<cvars, variant, proc, file, F1_DATA>>

res_ReadDriver ==
    /\ Serving("resources")
    /\ \E driver_id \in DriverIds :
         last' = Event("f1://driver/{driver_id}", Args1("driver_id", driver_id),
                       res_get_driver_resource(F1_DATA, driver_id), FALSE)
    /\ calls' = calls + 1
    /\ streak' = 0
    /\ UNCHANGED <<cvars, variant, proc, file, F1_DATA>>

res_ReadTeam ==
    /\ Serving("resources")
    /\ \E team_id \in TeamIds :
         last' = Event("f1://team/{team_id}", Args1("team_id", team_id),
                       res_get_team_resource(F1_DATA, team_id), FALSE)
    /\ calls' = calls + 1
    /\ streak' = 0
    /\ UNCHANGED <<cvars, variant, proc, file, F1_DATA>>

res_ReadCircuit ==
    /\ Serving("resources")
    /\ \E circuit_id \in CircuitIds :
         last' = Event("f1://circuit/{circuit_id}", Args1("circuit_id", circuit_id),
                       res_get_circuit_resource(F1_DATA, circuit_id), FALSE)
    /\ calls' = calls + 1
    /\ streak' = 0
    /\ UNCHANGED <<cvars, variant, proc, file, F1_DATA>>

res_GetDriverInfo ==
    /\ Serving("resources")
    /\ \E driver_id \in DriverIds :
         last' = Event("get_driver_info", Args1("driver_id", driver_id),
                       res_get_driver_info(F1_DATA, driver_id), FALSE)
    /\ calls' = calls + 1
    /\ streak' = 0
    /\ UNCHANGED <<cvars, variant, proc, file, F1_DATA>>

res_GetTeamInfo ==
    /\ Serving("resources")
    /\ \E team_id \in TeamIds :
         last' = Event("get_team_info", Args1("team_id", team_id),
                       res_get_team_info(F1_DATA, team_id), FALSE)
    /\ calls' = calls + 1
    /\ streak' = 0
    /\ UNCHANGED <<cvars, variant, proc, file, F1_DATA>>

res_GetCircuitInfo ==
    /\ Serving("resources")
    /\ \E circuit_id \in CircuitIds :
         last' = Event("get_circuit_info", Args1("circuit_id", circuit_id),
                       res_get_circuit_info(F1_DATA, circuit_id), FALSE)
    /\ calls' = calls + 1
    /\ streak' = 0
    /\ UNCHANGED <<cvars, variant, proc, file, F1_DATA>>

res_CompareDrivers ==
    /\ Serving("resources")
    /\ \E driver1_id \in DriverIds, driver2_id \in DriverIds :
         last' = Event("compare_drivers",
                       Args2("driver1_id", driver1_id, "driver2_id", driver2_id),
                       res_compare_drivers(F1_DATA, driver1_id, driver2_id), FALSE)
    /\ calls' = calls + 1
    /\ streak' = 0
    /\ UNCHANGED <<cvars, variant, proc, file, F1_DATA>>

\* the three awaited resource coroutines run to completion without yielding
\* to the event loop, so all three read the same F1_DATA
\* list_all_data during which a reload_data runs between the first and the
\* second resource read
res_ListAllData_interleaved ==
    /\ Serving("resources")
    /\ LET r == res_reload_data(F1_DATA, file) IN
         /\ last' = Event("list_all_data", NoArgs,
                          res_list_all_data(F1_DATA, r.data, r.data), FALSE)
         /\ F1_DATA' = r.data
    /\ calls' = calls + 1
    /\ streak' = 0
    /\ UNCHANGED <<cvars, variant, proc, file>>

res_ListAllData ==
    /\ Serving("resources")
    /\ last' = Event("list_all_data", NoArgs,
                     res_list_all_data(F1_DATA, F1_DATA, F1_DATA), FALSE)
    /\ calls' = calls + 1
    /\ streak' = 0
    /\ UNCHANGED <<cvars, variant, proc, file, F1_DATA>>

res_ReloadData ==
    /\ Serving("resources")
    /\ LET r == res_reload_data(F1_DATA, file) IN
         /\ last' = Event("reload_data", NoArgs, r.out, r.read)
         /\ F1_DATA' = r.data
         /\ streak' = Streak(streak, r)
    /\ calls' = calls + 1
    /\ UNCHANGED <<cvars, variant, proc, file>>

(***************************************************************************)
(* claude_server_generic.py: the tools return rendered text                *)
(***************************************************************************)
RECURSIVE Concat(_)
Concat(parts) == IF Len(parts) = 0 THEN "" ELSE PyStr(parts[1]) \o Concat(Tail(parts))

\* an f-string: its literal pieces and interpolated values left to right,
\* the first value that raises ending it
Fmt(parts) == IF AnyRaise(parts) THEN FirstRaise(parts) ELSE JStr(Concat(parts))

\* ', '.join(table.keys())
JoinKeys(table) ==
    IF IsRaise(table) THEN table
    ELSE IF table.t # "dict"
         THEN Raise("AttributeError", "'" \o table.t \o "' object has no attribute 'keys'")
    ELSE JStr(PyJoin(", ", DictKeys(table)))

NL == JStr("\n")

gen_get_info(F, entity_type, entity_id) ==
    LET data_key == IF entity_type = "driver" THEN "drivers"
                    ELSE IF entity_type = "team" THEN "teams" ELSE "circuits"
        table == GetItem(F, data_key)
        found == Contains(table, entity_id)
        entity == GetItem(table, entity_id)
        f(k) == GetItem(entity, k)
    IN  IF entity_type \notin {"driver", "team", "circuit"}
        THEN JStr("Unknown entity type '" \o entity_type
                  \o "'. Available types: driver, team, circuit")
        ELSE IF IsRaise(found) THEN found
        ELSE IF ~found.v
        THEN Fmt(<<JStr(IF entity_type = "driver" THEN "Driver '"
                        ELSE IF entity_type = "team" THEN "Team '" ELSE "Circuit '"),
                   JStr(entity_id),
                   JStr("' not found. Available " \o data_key \o ": "),
                   JoinKeys(table)>>)
        ELSE IF entity_type = "driver"
        THEN Fmt(<<NL, JStr("Driver: "), f("name"), NL,
                   JStr("Team: "), f("team"), NL,
                   JStr("Nationality: "), f("nationality"), NL,
                   JStr("World Championships: "), f("world_championships"), NL,
                   JStr("Race Wins: "), f("race_wins"), NL,
                   JStr("Pole Positions: "), f("pole_positions"), NL,
                   JStr("Fastest Laps: "), f("fastest_laps"), NL,
                   JStr("Current Points: "), f("current_points"), NL>>)
        ELSE IF entity_type = "team"
        THEN Fmt(<<NL, JStr("Team: "), f("name"), NL,
                   JStr("Base: "), f("base"), NL,
                   JStr("Team Principal: "), f("team_principal"), NL,
                   JStr("Constructors Championships: "),
                   f("constructors_championships"), NL,
                   JStr("Engine Supplier: "), f("engine_supplier"), NL,
                   JStr("Founded: "), f("founded"), NL>>)
        ELSE Fmt(<<NL, JStr("Circuit: "), f("name"), NL,
                   JStr("Location: "), f("location"), NL,
                   JStr("Length: "), f("length_km"), JStr(" km"), NL,
                   JStr("Race Laps: "), f("laps"), NL,
                   JStr("Lap Record: "), f("lap_record"), JStr(" by "),
                   f("lap_record_holder"), NL,
                   JStr("First GP: "), f("first_gp"), NL>>)

\* the helper nested in compare_drivers
gen_compare_stat(stat1, stat2, name1, name2) ==
    LET args == <<stat1, stat2, name1, name2>>
        gt == PyGt(stat1, stat2)
        lt == PyGt(stat2, stat1)
    IN  IF AnyRaise(args) THEN FirstRaise(args)
        ELSE IF IsRaise(gt) THEN gt
        ELSE IF gt.v
        THEN Fmt(<<name1, JStr(" ("), stat1, JStr(" vs "), stat2, JStr(")")>>)
        ELSE IF IsRaise(lt) THEN lt
        ELSE IF lt.v
        THEN Fmt(<<name2, JStr(" ("), stat2, JStr(" vs "), stat1, JStr(")")>>)
        ELSE Fmt(<<JStr("Equal ("), stat1, JStr(")")>>)

\* the four lines of the comparison, each the text compare_stat returns
gen_stat_lines(driver1, driver2) ==
    LET line(s) == gen_compare_stat(GetItem(driver1, s), GetItem(driver2, s),
                                    GetItem(driver1, "name"), GetItem(driver2, "name"))
    IN  <<line("world_championships"), line("race_wins"), line("pole_positions"),
          line("fastest_laps")>>

gen_compare_drivers(F, driver1_id, driver2_id) ==
    LET drivers == GetItem(F, "drivers")
        in1 == Contains(drivers, driver1_id)
        in2 == Contains(drivers, driver2_id)
        driver1 == GetItem(drivers, driver1_id)
        driver2 == GetItem(drivers, driver2_id)
        lines == gen_stat_lines(driver1, driver2)
    IN  IF IsRaise(in1) THEN in1
        ELSE IF ~in1.v THEN JStr("Driver '" \o driver1_id \o "' not found")
        ELSE IF IsRaise(in2) THEN in2
        ELSE IF ~in2.v THEN JStr("Driver '" \o driver2_id \o "' not found")
        ELSE Fmt(<<NL, GetItem(driver1, "name"), JStr(" vs "),
                   GetItem(driver2, "name"), NL, NL,
                   JStr("World Championships: "), lines[1], NL, NL,
                   JStr("Race Wins: "), lines[2], NL, NL,
                   JStr("Pole Positions: "), lines[3], NL, NL,
                   JStr("Fastest Laps: "), lines[4], NL>>)

gen_list_all_data(F) ==
    LET drivers == JoinKeys(GetItem(F, "drivers"))
        teams == JoinKeys(GetItem(F, "teams"))
        circuits == JoinKeys(GetItem(F, "circuits"))
    IN  Fmt(<<NL, JStr("Drivers: "), drivers, NL, NL,
              JStr("Teams: "), teams, NL, NL,
              JStr("Circuits: "), circuits, NL>>)

\* d.update(other) on the pairs of two dicts
DictUpdate(pairs, other) ==
    LET kept == [i \in 1..Len(pairs) |->
                   IF \E j \in 1..Len(other) : other[j][1] = pairs[i][1]
                   THEN <<pairs[i][1],
                          other[CHOOSE j \in 1..Len(other) : other[j][1] = pairs[i][1]][2]>>
                   ELSE pairs[i]]
        added == SelectSeq(other, LAMBDA pair :
                             ~\E i \in 1..Len(pairs) : pairs[i][1] = pair[1])
    IN  kept \o added

\* reload_data that updates F1_DATA in place (F1_DATA.update(load_f1_data()))
\* instead of rebinding it
gen_reload_data_merging(F, fname) ==
    LET loaded == load_f1_data(fname) IN
    IF IsRaise(loaded)
    THEN [out |-> loaded, data |-> F, read |-> TRUE]
    ELSE [out |-> JStr("F1 data reloaded successfully from f1_data.json"),
          data |-> IF F.t = "dict" /\ loaded.t = "dict"
                   THEN JDict(DictUpdate(F.v, loaded.v)) ELSE F,
          read |-> TRUE]

gen_reload_data(F, fname) ==
    LET loaded == load_f1_data(fname) IN
    IF IsRaise(loaded)
    THEN [out |-> loaded, data |-> F, read |-> TRUE]
    ELSE [out |-> JStr("F1 data reloaded successfully from f1_data.json"),
          data |-> loaded, read |-> TRUE]

EntityTypes == {"driver", "team", "circuit", "engine"}

EntityIds(entity_type) ==
    IF entity_type = "driver" THEN DriverIds
    ELSE IF entity_type = "team" THEN TeamIds
    ELSE IF entity_type = "circuit" THEN CircuitIds
    ELSE {"unknown_id"}

gen_GetInfo ==
    /\ Serving("generic")
    /\ \E entity_type \in EntityTypes :
         \E entity_id \in EntityIds(entity_type) :
            last' = Event("get_info",
                          Args2("entity_type", entity_type, "entity_id", entity_id),
                          gen_get_info(F1_DATA, entity_type, entity_id), FALSE)
    /\ calls' = calls + 1
    /\ streak' = 0
    /\ UNCHANGED <<cvars, variant, proc, file, F1_DATA>>

gen_CompareDrivers ==
    /\ Serving("generic")
    /\ \E driver1_id \in DriverIds, driver2_id \in DriverIds :
         last' = Event("compare_drivers",
                       Args2("driver1_id", driver1_id, "driver2_id", driver2_id),
                       gen_compare_drivers(F1_DATA, driver1_id, driver2_id), FALSE)
    /\ calls' = calls + 1
    /\ streak' = 0
    /\ UNCHANGED <<cvars, variant, proc, file, F1_DATA>>

gen_ListAllData ==
    /\ Serving("generic")
    /\ last' = Event("list_all_data", NoArgs, gen_list_all_data(F1_DATA), FALSE)
    /\ calls' = calls + 1
    /\ streak' = 0
    /\ UNCHANGED <<cvars, variant, proc, file, F1_DATA>>

gen_ReloadData ==
    /\ Serving("generic")
    /\ LET r == gen_reload_data(F1_DATA, file) IN
         /\ last' = Event("reload_data", NoArgs, r.out, r.read)
         /\ F1_DATA' = r.data
         /\ streak' = Streak(streak, r)
    /\ calls' = calls + 1
    /\ UNCHANGED <<cvars, variant, proc, file>>

(***************************************************************************)
(* claude_server_prompts.py: one prompt, the resources of                  *)
(* claude_server_resources.py plus a statistics summary, and the tools of  *)
(* claude_server.py with an unconditional reload                           *)
(***************************************************************************)
\* str(list_of_str): ['a', 'b']
ListRepr(keys) ==
    IF IsRaise(keys) THEN keys
    ELSE JStr("[" \o PyJoin(", ", [i \in 1..Len(keys.v) |-> "'" \o keys.v[i].v \o "'"])
              \o "]")

\* the prompt compare_drivers
pr_compare_drivers_prompt(F, driver1_id, driver2_id) ==
    LET drivers == DictGet(F, "drivers", JDict(<<>>))
        in1 == Contains(drivers, driver1_id)
        in2 == Contains(drivers, driver2_id)
        driver1 == GetItem(GetItem(F, "drivers"), driver1_id)
        driver2 == GetItem(GetItem(F, "drivers"), driver2_id)
        g(d, k, default) == DictGet(d, k, default)
        useIds == Fmt(<<JStr("Error: Use these IDs: "), ListRepr(KeysList(drivers))>>)
    IN  IF IsRaise(in1) THEN in1
        ELSE IF ~in1.v THEN useIds
        ELSE IF IsRaise(in2) THEN in2
        ELSE IF ~in2.v THEN useIds
        ELSE Fmt(<<JStr("Compare these two F1 drivers:\n\n**"),
                   g(driver1, "name", JStr("N/A")), JStr("** vs **"),
                   g(driver2, "name", JStr("N/A")), JStr("**\n\nDriver 1: "),
                   g(driver1, "name", JStr("N/A")), JStr(" ("),
                   g(driver1, "team", JStr("N/A")), JStr(")\n- Championships: "),
                   g(driver1, "world_championships", JInt(0)), JStr("\n- Wins: "),
                   g(driver1, "race_wins", JInt(0)), JStr("\n- Poles: "),
                   g(driver1, "pole_positions", JInt(0)), JStr("\n\nDriver 2: "),
                   g(driver2, "name", JStr("N/A")), JStr(" ("),
                   g(driver2, "team", JStr("N/A")), JStr(")\n- Championships: "),
                   g(driver2, "world_championships", JInt(0)), JStr("\n- Wins: "),
                   g(driver2, "race_wins", JInt(0)), JStr("\n- Poles: "),
                   g(driver2, "pole_positions", JInt(0)),
                   JStr("\n\nWho is better and why?")>>)

\* the six resources have the text of claude_server_resources.py
pr_list_drivers_resource(F) == res_list_drivers_resource(F)

pr_list_teams_resource(F) == res_list_teams_resource(F)

pr_list_circuits_resource(F) == res_list_circuits_resource(F)

pr_get_driver_resource(F, driver_id) == res_get_driver_resource(F, driver_id)

pr_get_team_resource(F, team_id) == res_get_team_resource(F, team_id)

pr_get_circuit_resource(F, circuit_id) == res_get_circuit_resource(F, circuit_id)

\* a + b
PyAdd(a, b) ==
    CASE IsRaise(a) -> a
      [] IsRaise(b) -> b
      [] a.t = "int" /\ b.t = "int" -> JInt(a.v + b.v)
      [] OTHER ->
           Raise("TypeError", "unsupported operand type(s) for +: '"
                                \o a.t \o "' and '" \o b.t \o "'")

\* sum(x.get("world_championships", 0) for x in drivers.values())
RECURSIVE pr_sum(_, _)
pr_sum(pairs, acc) ==
    IF Len(pairs) = 0 \/ IsRaise(acc) THEN acc
    ELSE pr_sum(Tail(pairs),
                PyAdd(acc, DictGet(pairs[1][2], "world_championships", JInt(0))))

\* a Python tuple (id, record)
JTuple(pair) == [t |-> "tuple", v |-> pair]

\* max(drivers.items(), key=..., default=...): the first item whose key no
\* later item exceeds; best is the item kept so far
RECURSIVE pr_max(_, _)
pr_max(pairs, best) ==
    IF Len(pairs) = 0 \/ IsRaise(best) THEN best
    ELSE LET gt == PyGt(DictGet(pairs[1][2], "world_championships", JInt(0)),
                        DictGet(best.v[2], "world_championships", JInt(0)))
         IN  IF IsRaise(gt) THEN gt
             ELSE pr_max(Tail(pairs), IF gt.v THEN JTuple(pairs[1]) ELSE best)

pr_get_stats_summary_resource(F) ==
    LET drivers == DictGet(F, "drivers", JDict(<<>>))
        teams == DictGet(F, "teams", JDict(<<>>))
        circuits == DictGet(F, "circuits", JDict(<<>>))
        total_championships == IF IsRaise(drivers) THEN drivers
                               ELSE pr_sum(drivers.v, JInt(0))
        most_successful_driver ==
            IF IsRaise(drivers) THEN drivers
            ELSE IF Len(drivers.v) = 0
                 THEN JTuple(<<"none", JDict(<< <<"name", JStr("N/A")>>,
                                                <<"world_championships", JInt(0)>> >>)>>)
            ELSE pr_max(Tail(drivers.v), JTuple(drivers.v[1]))
        first == <<PyLen(drivers), PyLen(teams), PyLen(circuits), total_championships,
                   most_successful_driver>>
    IN  IF AnyRaise(first) THEN FirstRaise(first)
        ELSE DumpsOf(MkDict(<<
               <<"resource_type", JStr("stats_summary")>>,
               <<"summary",
                 MkDict(<< <<"drivers_count", first[1]>>,
                           <<"teams_count", first[2]>>,
                           <<"circuits_count", first[3]>>,
                           <<"total_championships_tracked", total_championships>>,
                           <<"most_successful_driver",
                             MkDict(<< <<"id", JStr(most_successful_driver.v[1])>>,
                                       <<"name", DictGet(most_successful_driver.v[2],
                                                         "name", JStr("N/A"))>>,
                                       <<"championships",
                                         DictGet(most_successful_driver.v[2],
                                                 "world_championships",
                                                 JInt(0))>> >>)>> >>)>> >>))

\* the tools have the text of claude_server.py
pr_get_driver_info(F, driver_id) == cs_get_driver_info(F, driver_id)

pr_get_team_info(F, team_id) == cs_get_team_info(F, team_id)

pr_get_circuit_info(F, circuit_id) == cs_get_circuit_info(F, circuit_id)

pr_compare_drivers(F, driver1_id, driver2_id) ==
    cs_compare_drivers(F, driver1_id, driver2_id)

pr_list_all_data(F) == cs_list_all_data(F)

\* reload_data that counts the reloads inside the snapshot it installs
pr_reload_data_counting(F, fname) ==
    LET loaded == load_f1_data(fname)
        before == IF F.t = "dict" /\ HasKey(F, "reloads") THEN Lookup(F, "reloads").v
                  ELSE 0
    IN  IF IsRaise(loaded)
        THEN [out |-> loaded, data |-> F, read |-> TRUE]
        ELSE [out |-> JStr("F1 data reloaded successfully."),
              data |-> IF loaded.t = "dict"
                       THEN JDict(DictSet(loaded.v, "reloads", JInt(before + 1)))
                       ELSE loaded,
              read |-> TRUE]

pr_reload_data(F, fname) ==
    LET loaded == load_f1_data(fname) IN
    IF IsRaise(loaded)
    THEN [out |-> loaded, data |-> F, read |-> TRUE]
    ELSE [out |-> JStr("F1 data reloaded successfully."), data |-> loaded, read |-> TRUE]

pr_PromptCompareDrivers ==
    /\ Serving("prompts")
    /\ \E driver1_id \in DriverIds, driver2_id \in DriverIds :
         last' = Event("prompt:compare_drivers",
                       Args2("driver1_id", driver1_id, "driver2_id", driver2_id),
                       pr_compare_drivers_prompt(F1_DATA, driver1_id, driver2_id), FALSE)
    /\ calls' = calls + 1
    /\ streak' = 0
    /\ UNCHANGED <<cvars, variant, proc, file, F1_DATA>>

pr_ReadDrivers ==
    /\ Serving("prompts")
    /\ last' = Event("f1://drivers", NoArgs, pr_list_drivers_resource(F1_DATA), FALSE)
    /\ calls' = calls + 1
    /\ streak' = 0
    /\ UNCHANGED <<cvars, variant, proc, file, F1_DATA>>

pr_ReadTeams ==
    /\ Serving("prompts")
    /\ last' = Event("f1://teams", NoArgs, pr_list_teams_resource(F1_DATA), FALSE)
    /\ calls' = calls + 1
    /\ streak' = 0
    /\ UNCHANGED <<cvars, variant, proc, file, F1_DATA>>

pr_ReadCircuits ==
    /\ Serving("prompts")
    /\ last' = Event("f1://circuits", NoArgs, pr_list_circuits_resource(F1_DATA), FALSE)
    /\ calls' = calls + 1
    /\ streak' = 0
    /\ UNCHANGED <<cvars, variant, proc, file, F1_DATA>>

pr_ReadDriver ==
    /\ Serving("prompts")
    /\ \E driver_id \in DriverIds :
         last' = Event("f1://driver/{driver_id}", Args1("driver_id", driver_id),
                       pr_get_driver_resource(F1_DATA, driver_id), FALSE)
    /\ calls' = calls + 1
    /\ streak' = 0
    /\ UNCHANGED <<cvars, variant, proc, file, F1_DATA>>

pr_ReadTeam ==
    /\ Serving("prompts")
    /\ \E team_id \in TeamIds :
         last' = Event("f1://team/{team_id}", Args1("team_id", team_id),
                       pr_get_team_resource(F1_DATA, team_id), FALSE)
    /\ calls' = calls + 1
    /\ streak' = 0
    /\ UNCHANGED <<cvars, variant, proc, file, F1_DATA>>

pr_ReadCircuit ==
    /\ Serving("prompts")
    /\ \E circuit_id \in CircuitIds :
         last' = Event("f1://circuit/{circuit_id}", Args1("circuit_id", circuit_id),
                       pr_get_circuit_resource(F1_DATA, circuit_id), FALSE)
    /\ calls' = calls + 1
    /\ streak' = 0
    /\ UNCHANGED <<cvars, variant, proc, file, F1_DATA>>

pr_ReadStatsSummary ==
    /\ Serving("prompts")
    /\ last' = Event("f1://stats/summary", NoArgs, pr_get_stats_summary_resource(F1_DATA), FALSE)
    /\ calls' = calls + 1
    /\ streak' = 0
    /\ UNCHANGED <<cvars, variant, proc, file, F1_DATA>>

pr_GetDriverInfo ==
    /\ Serving("prompts")
    /\ \E driver_id \in DriverIds :
         last' = Event("get_driver_info", Args1("driver_id", driver_id),
                       pr_get_driver_info(F1_DATA, driver_id), FALSE)
    /\ calls' = calls + 1
    /\ streak' = 0
    /\ UNCHANGED <<cvars, variant, proc, file, F1_DATA>>

pr_GetTeamInfo ==
    /\ Serving("prompts")
    /\ \E team_id \in TeamIds :
         last' = Event("get_team_info", Args1("team_id", team_id),
                       pr_get_team_info(F1_DATA, team_id), FALSE)
    /\ calls' = calls + 1
    /\ streak' = 0
    /\ UNCHANGED <<cvars, variant, proc, file, F1_DATA>>

pr_GetCircuitInfo ==
    /\ Serving("prompts")
    /\ \E circuit_id \in CircuitIds :
         last' = Event("get_circuit_info", Args1("circuit_id", circuit_id),
                       pr_get_circuit_info(F1_DATA, circuit_id), FALSE)
    /\ calls' = calls + 1
    /\ streak' = 0
    /\ UNCHANGED <<cvars, variant, proc, file, F1_DATA>>

pr_CompareDrivers ==
    /\ Serving("prompts")
    /\ \E driver1_id \in DriverIds, driver2_id \in DriverIds :
         last' = Event("compare_drivers",
                       Args2("driver1_id", driver1_id, "driver2_id", driver2_id),
                       pr_compare_drivers(F1_DATA, driver1_id, driver2_id), FALSE)
    /\ calls' = calls + 1
    /\ streak' = 0
    /\ UNCHANGED <<cvars, variant, proc, file, F1_DATA>>

pr_ListAllData ==
    /\ Serving("prompts")
    /\ last' = Event("list_all_data", NoArgs, pr_list_all_data(F1_DATA), FALSE)
    /\ calls' = calls + 1
    /\ streak' = 0
    /\ UNCHANGED <<cvars, variant, proc, file, F1_DATA>>

pr_ReloadData ==
    /\ Serving("prompts")
    /\ LET r == pr_reload_data(F1_DATA, file) IN
         /\ last' = Event("reload_data", NoArgs, r.out, r.read)
         /\ F1_DATA' = r.data
         /\ streak' = Streak(streak, r)
    /\ calls' = calls + 1
    /\ UNCHANGED <<cvars, variant, proc, file>>

(***************************************************************************)
(* The environment, the start of the process, the specification            *)
(***************************************************************************)
\* somebody replaces, damages or removes f1_data.json (server.py has no file)
EditFile ==
    /\ variant # "server"
    /\ \E fname \in FileNames \ {file} : file' = fname
    /\ last' = Event("edit_file", NoArgs, JNull, FALSE)
    /\ streak' = 0
    /\ UNCHANGED <<cvars, variant, proc, F1_DATA, calls>>

\* the module-level statement that binds F1_DATA when the file is imported
Startup(v, fname) == IF v = "server" THEN BUILTIN_F1_DATA ELSE load_f1_data(fname)

Init ==
    /\ variant \in Variants
    /\ file \in (IF variant = "server" THEN {"missing"} ELSE FileNames)
    /\ LET d == Startup(variant, file) IN
         /\ proc = IF IsRaise(d) THEN "crashed" ELSE "running"
         /\ F1_DATA = IF IsRaise(d) THEN JNull ELSE d
         /\ last = Event("start", NoArgs, IF IsRaise(d) THEN d ELSE JNull,
                         variant # "server")
    /\ calls = 0
    /\ streak = 0
    /\ script = "none"
    /\ argv = <<>>
    /\ api_key = TRUE
    /\ pc = "none"
    /\ question = <<>>
    /\ response = <<>>
    /\ log = <<>>

Next ==
    \/ EditFile
    \/ cs_GetDriverInfo
    \/ cs_GetTeamInfo
    \/ cs_GetCircuitInfo
    \/ cs_CompareDrivers
    \/ cs_ListAllData
    \/ cs_ReloadData
    \/ srv_HandleCallTool
    \/ res_ReadDrivers
    \/ res_ReadTeams
    \/ res_ReadCircuits
    \/ res_ReadDriver
    \/ res_ReadTeam
    \/ res_ReadCircuit
    \/ res_GetDriverInfo
    \/ res_GetTeamInfo
    \/ res_GetCircuitInfo
    \/ res_CompareDrivers
    \/ res_ListAllData
    \/ res_ReloadData
    \/ gen_GetInfo
    \/ gen_CompareDrivers
    \/ gen_ListAllData
    \/ gen_ReloadData
    \/ pr_PromptCompareDrivers
    \/ pr_ReadDrivers
    \/ pr_ReadTeams
    \/ pr_ReadCircuits
    \/ pr_ReadDriver
    \/ pr_ReadTeam
    \/ pr_ReadCircuit
    \/ pr_ReadStatsSummary
    \/ pr_GetDriverInfo
    \/ pr_GetTeamInfo
    \/ pr_GetCircuitInfo
    \/ pr_CompareDrivers
    \/ pr_ListAllData
    \/ pr_ReloadData

Spec == Init /\ [][Next]_vars

(***************************************************************************)
(* The clients claude_api.py and gpt_client.py: text of the command line   *)
(* and of the input, the replies of the model, the tool call               *)
(***************************************************************************)
\* the tools server.py announces in handle_list_tools, in its order
handle_list_tools ==
    <<"get_driver_info", "get_team_info", "get_circuit_info", "compare_drivers",
      "list_all_data">>

\* a line of input is a sequence of characters
IsSpace(c) == c \in {" ", "\t"}

\* str.lower() on the characters the input lines are made of
LowerChar(c) ==
    CASE c = "Q" -> "q"
      [] c = "U" -> "u"
      [] c = "I" -> "i"
      [] c = "T" -> "t"
      [] OTHER -> c

lower(line) == [i \in 1..Len(line) |-> LowerChar(line[i])]

RECURSIVE lstrip(_)
lstrip(line) ==
    IF Len(line) > 0 /\ IsSpace(line[1]) THEN lstrip(Tail(line)) ELSE line

RECURSIVE rstrip(_)
rstrip(line) ==
    IF Len(line) > 0 /\ IsSpace(line[Len(line)])
    THEN rstrip(SubSeq(line, 1, Len(line) - 1)) ELSE line

\* a strip that leaves the blanks at the end of the line
strip_left_only(line) == lstrip(line)

\* str.strip()
strip(line) == rstrip(lstrip(line))

\* the lines typed at the prompt: quit in several spellings, with and
\* without blanks around it, lines that only resemble it, an empty line, a
\* question
Lines ==
    {<<"q", "u", "i", "t">>,
     <<"Q", "u", "I", "T">>,
     <<" ", "\t", "Q", "U", "I", "T", " ">>,
     <<"q", "u", "i", "t", " ", "n", "o", "w">>,
     <<"q", " ", "u", "i", "t">>,
     <<" ", "q", "u", "i", "t", "s">>,
     <<>>,
     <<"w", "h", "o", "?">>}

\* a str held as its characters
Chars(line) == [t |-> "chars", v |-> line]

\* the tool invocations the model asks for
ToolRequests ==
    {[name |-> "get_driver_info", input |-> Args1("driver_id", "max_verstappen")],
     [name |-> "list_all_data", input |-> NoArgs]}

\* Anthropic content blocks: content.type, .text, .id, .name, .input
TextBlock(text) ==
    [type |-> "text", text |-> text, id |-> "", name |-> "", input |-> JNull]

ToolUseBlock(id, req) ==
    [type |-> "tool_use", text |-> "", id |-> id, name |-> req.name, input |-> req.input]

\* response.content of the first messages.create: text, a tool request, text
\* and a tool request, two tool requests, nothing
ClaudeReplies ==
    {<<>>, <<TextBlock("Sure.")>>}
    \cup {<<ToolUseBlock("toolu_1", r)>> : r \in ToolRequests}
    \cup {<<TextBlock("Let me look that up."), ToolUseBlock("toolu_1", r)>> :
            r \in ToolRequests}
    \cup {<<ToolUseBlock("toolu_1", rr[1]), ToolUseBlock("toolu_2", rr[2])>> :
            rr \in {pp \in ToolRequests \X ToolRequests : pp[1] # pp[2]}}

\* an OpenAI tool call: its function.arguments is JSON text
ToolCall(id, req) ==
    [id |-> id, function |-> [name |-> req.name, arguments |-> json_dumps(req.input)]]

\* response.choices[0].message of the first chat.completions.create; content
\* None is JNull, tool_calls None is the empty sequence; text, a tool call,
\* text and a tool call, the empty text and a tool call, two tool calls,
\* nothing
GptReplies ==
    {[content |-> JNull, tool_calls |-> <<>>],
     [content |-> JStr("Sure."), tool_calls |-> <<>>]}
    \cup {[content |-> JNull, tool_calls |-> <<ToolCall("call_1", r)>>] :
            r \in ToolRequests}
    \cup {[content |-> JStr("Let me look that up."),
           tool_calls |-> <<ToolCall("call_1", r)>>] : r \in ToolRequests}
    \cup {[content |-> JStr(""),
           tool_calls |-> <<ToolCall("call_1", r)>>] : r \in ToolRequests}
    \cup {[content |-> JNull,
           tool_calls |-> <<ToolCall("call_1", rr[1]), ToolCall("call_2", rr[2])>>] :
            rr \in {pp \in ToolRequests \X ToolRequests : pp[1] # pp[2]}}

\* the tool invocations a reply asks for, in its order, as name and input
Requests(reply) ==
    IF script = "claude_api"
    THEN LET uses == SelectSeq(reply, LAMBDA content : content.type = "tool_use")
         IN  [i \in 1..Len(uses) |->
                [id |-> uses[i].id, name |-> uses[i].name, input |-> uses[i].input]]
    ELSE [i \in 1..Len(reply.tool_calls) |->
            [id |-> reply.tool_calls[i].id,
             name |-> reply.tool_calls[i].function.name,
             input |-> json_loads(reply.tool_calls[i].function.arguments)]]

\* one thing the client did: read a line, printed, called the model or a tool
Entry(e, a, b) == [e |-> e, a |-> a, b |-> b]

\* session.call_tool(name, arguments) against server.py: the content list of
\* the result
session_call_tool(F, name, arguments) ==
    <<handle_call_tool(F, [name |-> name, arguments |-> arguments])>>

\* result.content[0].text if result.content else "No result"
tool_result_text(content) ==
    IF Len(content) > 0 THEN JText(content[1].v) ELSE JStr("No result")

\* the text the model gives once it has the tool's result
FinalAnswers == {"Max Verstappen has 4 titles."}

\* python <script>: with and without the positional argument
CommandLines(name) == {<<name>>, <<name, "server.py">>}

(***************************************************************************)
(* The clients: one action per step of main                                *)
(***************************************************************************)
\* the module-level statements: gpt_client.py builds its OpenAI client here,
\* and OpenAI() raises OpenAIError when no API key is configured;
\* claude_api.py builds no client at import
cl_Import ==
    /\ pc = "import"
    /\ IF script = "gpt_client" /\ ~api_key
       THEN /\ pc' = "crashed"
            /\ log' = Append(log, Entry("traceback", JStr("OpenAIError"), JNull))
       ELSE /\ pc' = "main"
            /\ log' = log
    /\ UNCHANGED <<script, argv, api_key, question, response>>
    /\ UNCHANGED <<variant, proc, file, F1_DATA, last, calls, streak>>

\* if len(sys.argv) < 2: print the usage line and return
cl_Usage ==
    /\ pc = "main"
    /\ Len(argv) < 2
    /\ log' = Append(log,
                     Entry("print",
                           JStr(IF script = "claude_api"
                                THEN "Usage: python claude_api.py server.py"
                                ELSE "Usage: python gpt_client.py claude_server.py"),
                           JNull))
    /\ pc' = "exited"
    /\ UNCHANGED <<script, argv, api_key, question, response>>
    /\ UNCHANGED <<variant, proc, file, F1_DATA, last, calls, streak>>

\* launch python sys.argv[1], initialize the session, list the tools and print
\* their names
cl_Connect ==
    /\ pc = "main"
    /\ Len(argv) >= 2
    /\ proc' = "running"
    /\ F1_DATA' = Startup(variant, file)
    /\ log' = log \o <<Entry("launch", JStr(argv[2]), JNull),
                       Entry("print", JStr("Available tools"),
                             JList([i \in 1..Len(handle_list_tools) |->
                                        JStr(handle_list_tools[i])]))>>
    /\ pc' = "prompt"
    /\ UNCHANGED <<script, argv, api_key, question, response>>
    /\ UNCHANGED <<variant, file, last, calls, streak>>

\* question = input(...).strip(); if question.lower() == 'quit': break
cl_Input ==
    /\ pc = "prompt"
    /\ \E line \in Lines :
         /\ question' = strip(line)
         /\ log' = <<Entry("input", Chars(line), JNull)>>
    /\ pc' = IF lower(question') = <<"q", "u", "i", "t">> THEN "exited" ELSE "ask"
    /\ response' = <<>>
    /\ UNCHANGED <<script, argv, api_key>>
    /\ UNCHANGED <<variant, proc, file, F1_DATA, last, calls, streak>>

\* input() at end-of-input raises EOFError; nothing in main catches it
cl_InputEOF ==
    /\ pc = "prompt"
    /\ log' = Append(log, Entry("traceback", JStr("EOFError"), JNull))
    /\ pc' = "crashed"
    /\ UNCHANGED <<script, argv, api_key, question, response>>
    /\ UNCHANGED <<variant, proc, file, F1_DATA, last, calls, streak>>

\* the first messages.create / chat.completions.create, with the tools
cl_Ask ==
    /\ pc = "ask"
    /\ \E reply \in (IF script = "claude_api" THEN ClaudeReplies ELSE GptReplies) :
         /\ response' = reply
         /\ log' = Append(log, Entry("create", Chars(question),
                                     [t |-> "requests", v |-> Requests(reply)]))
    /\ pc' = "handle"
    /\ UNCHANGED <<script, argv, api_key, question>>
    /\ UNCHANGED <<variant, proc, file, F1_DATA, last, calls, streak>>

\* the tool call, the second model call with the tool's result, and the
\* printing of the final answer, as both clients do them for one request
UseTool(id, name, arguments) ==
    LET result == session_call_tool(F1_DATA, name, arguments)
        tool_result == tool_result_text(result)
    IN  /\ last' = Event(name, arguments, result[1], FALSE)
        /\ \E answer \in FinalAnswers :
             log' = log \o <<Entry("call_tool", JStr(name), arguments),
                             Entry("follow_up", JStr(id), tool_result),
                             Entry("print", JStr(answer), JNull)>>

\* claude_api.py, for content in response.content: a text block is printed
capi_PrintText ==
    /\ script = "claude_api"
    /\ pc = "handle"
    /\ Len(response) > 0
    /\ Head(response).type = "text"
    /\ log' = Append(log, Entry("print", JStr(Head(response).text), JNull))
    /\ response' = Tail(response)
    /\ UNCHANGED <<script, argv, api_key, pc, question>>
    /\ UNCHANGED <<variant, proc, file, F1_DATA, last, calls, streak>>

\* claude_api.py: a tool_use block
capi_UseTool ==
    /\ script = "claude_api"
    /\ pc = "handle"
    /\ Len(response) > 0
    /\ Head(response).type = "tool_use"
    /\ UseTool(Head(response).id, Head(response).name, Head(response).input)
    /\ response' = Tail(response)
    /\ UNCHANGED <<script, argv, api_key, pc, question>>
    /\ UNCHANGED <<variant, proc, file, F1_DATA, calls, streak>>

\* claude_api.py: the for loop is over, back to while True
capi_EndOfReply ==
    /\ script = "claude_api"
    /\ pc = "handle"
    /\ Len(response) = 0
    /\ pc' = "prompt"
    /\ UNCHANGED <<script, argv, api_key, question, response, log>>
    /\ UNCHANGED <<variant, proc, file, F1_DATA, last, calls, streak>>

\* the two tests in the other order: text counts only when the message has
\* no tool calls
HasContent_unless_tool_calls(msg) ==
    msg.content.t = "str" /\ msg.content.v # "" /\ Len(msg.tool_calls) = 0

\* bool(msg.content): None and the empty str are false
HasContent(msg) == msg.content.t = "str" /\ msg.content.v # ""

\* gpt_client.py, if msg.content: the text is printed, the tool calls of the
\* message are not looked at
gpt_PrintContent ==
    /\ script = "gpt_client"
    /\ pc = "handle"
    /\ HasContent(response)
    /\ log' = Append(log, Entry("print", response.content, JNull))
    /\ pc' = "prompt"
    /\ UNCHANGED <<script, argv, api_key, question, response>>
    /\ UNCHANGED <<variant, proc, file, F1_DATA, last, calls, streak>>

\* gpt_client.py, elif msg.tool_calls: the first tool call only
gpt_UseTool ==
    /\ script = "gpt_client"
    /\ pc = "handle"
    /\ ~HasContent(response)
    /\ Len(response.tool_calls) > 0
    /\ LET tool_call == response.tool_calls[1]
           arguments == json_loads(tool_call.function.arguments)
       IN  UseTool(tool_call.id, tool_call.function.name, arguments)
    /\ pc' = "prompt"
    /\ UNCHANGED <<script, argv, api_key, question, response>>
    /\ UNCHANGED <<variant, proc, file, F1_DATA, calls, streak>>

\* gpt_client.py, else: the fallback line
gpt_Empty ==
    /\ script = "gpt_client"
    /\ pc = "handle"
    /\ ~HasContent(response)
    /\ Len(response.tool_calls) = 0
    /\ log' = Append(log,
                     Entry("print",
                           JStr("GPT response was empty and did not include any tool calls."),
                           JNull))
    /\ pc' = "prompt"
    /\ UNCHANGED <<script, argv, api_key, question, response>>
    /\ UNCHANGED <<variant, proc, file, F1_DATA, last, calls, streak>>

\* python claude_api.py ... or python gpt_client.py ..., with or without an
\* API key in the environment; the provider process is not started yet
ClientInit ==
    /\ script \in {"claude_api", "gpt_client"}
    /\ argv \in CommandLines(script)
    /\ api_key \in (IF script = "gpt_client" THEN BOOLEAN ELSE {TRUE})
    /\ pc = "import"
    /\ question = <<>>
    /\ response = <<>>
    /\ log = <<>>
    /\ variant = "server"
    /\ file = "missing"
    /\ proc = "stopped"
    /\ F1_DATA = JNull
    /\ last = Event("start", NoArgs, JNull, FALSE)
    /\ calls = 0
    /\ streak = 0

ClientNext ==
    \/ cl_Import
    \/ cl_Usage
    \/ cl_Connect
    \/ cl_Input
    \/ cl_InputEOF
    \/ cl_Ask
    \/ capi_PrintText
    \/ capi_UseTool
    \/ capi_EndOfReply
    \/ gpt_PrintContent
    \/ gpt_UseTool
    \/ gpt_Empty

ClientSpec == ClientInit /\ [][ClientNext]_vars

(***************************************************************************)
(* What the properties below read off the state                            *)
(***************************************************************************)
TableNames == {"drivers", "teams", "circuits"}

GetOp(tbl) ==
    IF tbl = "drivers" THEN "get_driver_info"
    ELSE IF tbl = "teams" THEN "get_team_info" ELSE "get_circuit_info"

ArgKey(tbl) ==
    IF tbl = "drivers" THEN "driver_id"
    ELSE IF tbl = "teams" THEN "team_id" ELSE "circuit_id"

Noun(tbl) ==
    IF tbl = "drivers" THEN "Driver" ELSE IF tbl = "teams" THEN "Team" ELSE "Circuit"

\* snapshot F holds table tbl as a mapping
HasTable(F, tbl) == F.t = "dict" /\ HasKey(F, tbl) /\ Lookup(F, tbl).t = "dict"

\* the servers whose get_driver_info, get_team_info and get_circuit_info
\* return structured results
StructuredVariants == {"server", "claude_server", "resources", "prompts"}

\* the last event is a call of the get tool of table tbl that names an id
GetCallOn(tbl) ==
    /\ variant \in StructuredVariants
    /\ last.op = GetOp(tbl)
    /\ last.args.t = "dict"
    /\ HasKey(last.args, ArgKey(tbl))

RequestedId(tbl) == Lookup(last.args, ArgKey(tbl)).v

\* what the helper of server.py returned, read back from the handler's text
SrvResult == json_loads(last.out.v)

RECURSIVE CommaSeparated(_)
CommaSeparated(ids) ==
    IF Len(ids) = 0 THEN ""
    ELSE IF Len(ids) = 1 THEN ids[1].v
    ELSE ids[1].v \o ", " \o CommaSeparated(Tail(ids))

(***************************************************************************)
(* C1  get_driver_info, get_team_info and get_circuit_info called with an  *)
(* id that is a key of their table return exactly the record stored under  *)
(* it: as the "data" of the success result in server.py, as the result     *)
(* itself in claude_server.py and claude_server_prompts.py, and after the  *)
(* JSON round trip in claude_server_resources.py.                          *)
(***************************************************************************)
C1_GetReturnsStoredRecord ==
    \A tbl \in TableNames :
       (/\ GetCallOn(tbl)
        /\ HasTable(F1_DATA, tbl)
        /\ HasKey(Lookup(F1_DATA, tbl), RequestedId(tbl)))
       => LET stored == Lookup(Lookup(F1_DATA, tbl), RequestedId(tbl)) IN
          IF variant = "server"
          THEN SrvResult = JDict(<< <<"success", JBool(TRUE)>>, <<"data", stored>> >>)
          ELSE last.out = stored

\* the resources server has answered get_circuit_info("monaco") with the
\* stored record, a float and two integers among its fields
C1_Witness ==
    /\ variant = "resources"
    /\ last.op = "get_circuit_info"
    /\ HasTable(F1_DATA, "circuits")
    /\ RequestedId("circuits") = "monaco"
    /\ last.out = Monaco

(***************************************************************************)
(* C2  Called with an id that is not a key of their table, the three get   *)
(* tools return a failure result that lists exactly the keys of that table *)
(* in stored order: as the list "available" (claude_server.py, prompts),   *)
(* as the list "available_<table>" (resources), and in server.py spelled   *)
(* out in the error text; for server.py's built-in drivers and unknown_id  *)
(* these are max_verstappen, lewis_hamilton, charles_leclerc.              *)
(***************************************************************************)
C2_NotFoundListsKeys ==
    \A tbl \in TableNames :
       (/\ GetCallOn(tbl)
        /\ HasTable(F1_DATA, tbl)
        /\ ~HasKey(Lookup(F1_DATA, tbl), RequestedId(tbl)))
       => LET table == Lookup(F1_DATA, tbl)
              ids == [i \in 1..Len(table.v) |-> JStr(table.v[i][1])]
              listKey == IF variant = "resources" THEN "available_" \o tbl
                         ELSE "available"
          IN  IF variant = "server"
              THEN /\ SrvResult.t = "dict"
                   /\ DictKeys(SrvResult) = <<"success", "error">>
                   /\ Lookup(SrvResult, "success") = JBool(FALSE)
                   /\ Lookup(SrvResult, "error")
                        = JStr(Noun(tbl) \o " '" \o RequestedId(tbl)
                               \o "' not found. Available " \o tbl \o ": "
                               \o CommaSeparated(ids))
                   /\ (tbl = "drivers" /\ RequestedId(tbl) = "unknown_id")
                      => Lookup(SrvResult, "error")
                           = JStr("Driver 'unknown_id' not found. Available drivers: "
                                  \o "max_verstappen, lewis_hamilton, charles_leclerc")
              ELSE /\ last.out.t = "dict"
                   /\ DictKeys(last.out) = <<"error", listKey>>
                   /\ Lookup(last.out, listKey) = JList(ids)

\* claude_server.py, holding the second document, has been asked for a
\* driver it lacks and has listed its three ids in that document's order
C2_Witness ==
    /\ variant = "claude_server"
    /\ last.op = "get_driver_info"
    /\ F1_DATA = DocAlt
    /\ RequestedId("drivers") = "unknown_id"
    /\ last.out.t = "dict"
    /\ HasKey(last.out, "available")
    /\ Lookup(last.out, "available")
         = JList(<<JStr("michael_schumacher"), JStr("lewis_hamilton"),
                   JStr("max_verstappen")>>)

(***************************************************************************)
(* C3  No operation raises out of the dispatcher: whatever the operation,  *)
(* its arguments (missing ones included) and the snapshot, the invocation  *)
(* returns normally, an internal error having been turned into a failure   *)
(* result.  Stated for every event that is an invocation; claude_server.py *)
(* and the other file-backed servers violate it, their tool functions      *)
(* having no handler around a snapshot that lacks a table.                 *)
(***************************************************************************)
IsInvocation == last.op \notin {"start", "edit_file"}

C3_NoFaultLeavesOperation ==
    IsInvocation
    => /\ ~IsRaise(last.out)
       /\ variant = "server"
          => /\ SrvResult.t = "dict"
             /\ HasKey(SrvResult, "success")
             /\ Lookup(SrvResult, "success") = JBool(FALSE)
                => DictKeys(SrvResult) = <<"success", "error">>

(***************************************************************************)
(* C4  load() never fails the process and every snapshot that becomes      *)
(* active has the three tables drivers, teams and circuits: the process is *)
(* running, no read of the file has raised, and the active snapshot holds  *)
(* each table as a mapping.  Violated by a file that is valid JSON without *)
(* the tables, and by a file that is not valid UTF-8.                      *)
(***************************************************************************)
C4_LoadGivesThreeTables ==
    /\ proc = "running"
    /\ last.read => ~IsRaise(last.out)
    /\ \A tbl \in TableNames : HasTable(F1_DATA, tbl)

(***************************************************************************)
(* C5  claude_server.py: reload_data called with confirm false, or without *)
(* confirm, leaves F1_DATA as it was, does not open the file, and returns  *)
(* the text that says the reload was aborted and how to confirm it.        *)
(***************************************************************************)
Confirmed(args) ==
    args.t = "dict" /\ HasKey(args, "confirm") /\ Lookup(args, "confirm") = JBool(TRUE)

\* this step is an invocation of reload_data on a file-backed server
ReloadStep ==
    /\ variant # "server"
    /\ calls' = calls + 1
    /\ last'.op = "reload_data"

C5_UnconfirmedReloadIsNoOp ==
    [][(/\ ReloadStep
        /\ variant = "claude_server"
        /\ ~Confirmed(last'.args))
       => /\ F1_DATA' = F1_DATA
          /\ ~last'.read
          /\ last'.out = JStr("Reload aborted: please set 'confirm=true' to reload.")]_vars

\* the file now holds the second document, reload_data was called without
\* confirm, and the snapshot is still the first document
C5_Witness ==
    /\ variant = "claude_server"
    /\ last.op = "reload_data"
    /\ last.args = NoArgs
    /\ file = "alt"
    /\ F1_DATA = BUILTIN_F1_DATA

(***************************************************************************)
(* C6  A reload that takes effect (confirmed in claude_server.py, any      *)
(* reload in the other file-backed servers) and returns leaves F1_DATA     *)
(* equal to what load_f1_data gives for the file as it is at that step:    *)
(* the whole snapshot is replaced, nothing of the previous one is kept.    *)
(* For the second document and for a missing file the expected snapshot is *)
(* written out.                                                            *)
(***************************************************************************)
EffectiveReloadStep ==
    /\ ReloadStep
    /\ variant = "claude_server" => Confirmed(last'.args)
    /\ ~IsRaise(last'.out)

C6_ReloadReplacesSnapshot ==
    [][EffectiveReloadStep
       => /\ F1_DATA' = load_f1_data(file)
          /\ file = "alt" => F1_DATA' = DocAlt
          /\ file = "drivers_only" => F1_DATA' = DocDriversOnly
          /\ file = "no_tables" => F1_DATA' = JDict(<<>>)
          /\ file \in {"missing", "truncated"} => F1_DATA' = EmptySnapshot]_vars

\* the generic server's second call is a reload that follows something
\* other than a reload of the same file; the file holds the drivers table
\* only and the snapshot is exactly that document, with no other table
C6_Witness ==
    /\ variant = "generic"
    /\ last.op = "reload_data"
    /\ ~IsRaise(last.out)
    /\ calls = 2
    /\ streak = 1
    /\ file = "drivers_only"
    /\ F1_DATA = DocDriversOnly

(***************************************************************************)
(* C7  Reload is idempotent while the file does not change: when a step is *)
(* the second of two consecutive effective reloads with no change of the   *)
(* file between them, it leaves F1_DATA equal to what the first left, and  *)
(* every get, compare, list, resource and prompt of the server answers as  *)
(* it did after the first.                                                 *)
(***************************************************************************)
DriverPairs == DriverIds \X DriverIds

\* every answer the server of variant v gives over snapshot F
Answers(v, F) ==
    CASE v = "claude_server" ->
           <<[id \in DriverIds |-> cs_get_driver_info(F, id)],
             [id \in TeamIds |-> cs_get_team_info(F, id)],
             [id \in CircuitIds |-> cs_get_circuit_info(F, id)],
             [p \in DriverPairs |-> cs_compare_drivers(F, p[1], p[2])],
             cs_list_all_data(F)>>
      [] v = "generic" ->
           <<[e \in EntityTypes |->
                [id \in EntityIds(e) |-> gen_get_info(F, e, id)]],
             [p \in DriverPairs |-> gen_compare_drivers(F, p[1], p[2])],
             gen_list_all_data(F)>>
      [] v = "resources" ->
           <<[id \in DriverIds |-> res_get_driver_info(F, id)],
             [id \in TeamIds |-> res_get_team_info(F, id)],
             [id \in CircuitIds |-> res_get_circuit_info(F, id)],
             [p \in DriverPairs |-> res_compare_drivers(F, p[1], p[2])],
             res_list_all_data(F, F, F),
             [id \in DriverIds |-> res_get_driver_resource(F, id)],
             [id \in TeamIds |-> res_get_team_resource(F, id)],
             [id \in CircuitIds |-> res_get_circuit_resource(F, id)],
             res_list_drivers_resource(F), res_list_teams_resource(F),
             res_list_circuits_resource(F)>>
      [] v = "prompts" ->
           <<[id \in DriverIds |-> pr_get_driver_info(F, id)],
             [id \in TeamIds |-> pr_get_team_info(F, id)],
             [id \in CircuitIds |-> pr_get_circuit_info(F, id)],
             [p \in DriverPairs |-> pr_compare_drivers(F, p[1], p[2])],
             pr_list_all_data(F),
             [id \in DriverIds |-> pr_get_driver_resource(F, id)],
             [id \in TeamIds |-> pr_get_team_resource(F, id)],
             [id \in CircuitIds |-> pr_get_circuit_resource(F, id)],
             pr_list_drivers_resource(F), pr_list_teams_resource(F),
             pr_list_circuits_resource(F), pr_get_stats_summary_resource(F),
             [p \in DriverPairs |-> pr_compare_drivers_prompt(F, p[1], p[2])]>>
      [] OTHER ->
           [r \in {[name |-> n, arguments |-> a] :
                     n \in SrvToolNames, a \in {NoArgs, JNull}} |->
              handle_call_tool(F, r)]

C7_ReloadIsIdempotent ==
    [][(EffectiveReloadStep /\ streak' = 2)
       => /\ F1_DATA' = F1_DATA
          /\ Answers(variant, F1_DATA') = Answers(variant, F1_DATA)]_vars

\* the prompts server has reloaded twice in a row with the second document
\* in the file throughout, and holds that document
C7_Witness ==
    /\ variant = "prompts"
    /\ last.op = "reload_data"
    /\ streak = 2
    /\ file = "alt"
    /\ F1_DATA = DocAlt

(***************************************************************************)
(* C8  Only reload changes F1_DATA: every step that is an invocation of a  *)
(* tool, resource or prompt other than reload_data, whether it returns a   *)
(* record, a failure result or raises, leaves F1_DATA as it was, and with  *)
(* it the answer of every later operation.                                 *)
(***************************************************************************)
C8_OnlyReloadChangesData ==
    [][(calls' = calls + 1 /\ last'.op # "reload_data")
       => F1_DATA' = F1_DATA]_vars

\* claude_server.py holds the second document after a failed get_driver_info:
\* the snapshot still has the three drivers the failure result lists
C8_Witness ==
    /\ variant = "claude_server"
    /\ last.op = "get_driver_info"
    /\ last.out.t = "dict"
    /\ HasKey(last.out, "error")
    /\ calls = 2
    /\ F1_DATA = DocAlt

(***************************************************************************)
(* What the properties of compare_drivers read off the state               *)
(***************************************************************************)
Driver1Id == Lookup(last.args, "driver1_id").v

Driver2Id == Lookup(last.args, "driver2_id").v

\* the last event is compare_drivers called with two ids that are keys of
\* the drivers table, and it returned
CompareCall ==
    /\ last.op = "compare_drivers"
    /\ last.args.t = "dict"
    /\ HasKey(last.args, "driver1_id")
    /\ HasKey(last.args, "driver2_id")
    /\ HasTable(F1_DATA, "drivers")
    /\ HasKey(Lookup(F1_DATA, "drivers"), Driver1Id)
    /\ HasKey(Lookup(F1_DATA, "drivers"), Driver2Id)
    /\ ~IsRaise(last.out)

\* the result compare_drivers(a, b) has on the server of variant v
CompareResult(v, F, a, b) ==
    CASE v = "server" ->
           json_loads(handle_call_tool(F, [name |-> "compare_drivers",
                                           arguments |-> Args2("driver1_id", a,
                                                               "driver2_id", b)]).v)
      [] v = "claude_server" -> cs_compare_drivers(F, a, b)
      [] v = "resources" -> res_compare_drivers(F, a, b)
      [] v = "prompts" -> pr_compare_drivers(F, a, b)
      [] OTHER -> gen_compare_drivers(F, a, b)

\* the result of the last event, and that of the same call with its ids
\* swapped
Forward == IF variant = "server" THEN SrvResult ELSE last.out

Backward == CompareResult(variant, F1_DATA, Driver2Id, Driver1Id)

\* the statistics compared by the servers that read f1_data.json
ComparedStats == {"world_championships", "race_wins", "pole_positions", "fastest_laps"}

\* server.py: the entries of "analysis" and the statistic each one compares
AnalysisStat ==
    [more_championships |-> "world_championships", more_wins |-> "race_wins",
     more_poles |-> "pole_positions"]

\* the name a structured result gives the winner of statistic s, None for
\* a tie
WinnerName(result, s) ==
    LET label == Lookup(Lookup(result, "comparisons"), s).v IN
    IF label = "equal" THEN JNull ELSE Lookup(result, label)

\* the text the generic server returns for names n1, n2 and four stat lines
ComparisonText(n1, n2, lines) ==
    Fmt(<<NL, n1, JStr(" vs "), n2, NL, NL,
          JStr("World Championships: "), lines[1], NL, NL,
          JStr("Race Wins: "), lines[2], NL, NL,
          JStr("Pole Positions: "), lines[3], NL, NL,
          JStr("Fastest Laps: "), lines[4], NL>>)

Driver1 == Lookup(Lookup(F1_DATA, "drivers"), Driver1Id)

Driver2 == Lookup(Lookup(F1_DATA, "drivers"), Driver2Id)

(***************************************************************************)
(* C9  compare_drivers is symmetric: for two present ids a and b, the      *)
(* result of compare_drivers(b, a) has the driver1 and driver2 entries of  *)
(* compare_drivers(a, b) exchanged, and for each statistic it names the    *)
(* same driver as the winner, a tie staying a tie.  In the generic server  *)
(* the two texts carry the same four statistic lines under exchanged       *)
(* headings.                                                               *)
(***************************************************************************)
C9_CompareIsSymmetric ==
    CompareCall
    => /\ ~IsRaise(Backward)
       /\ CASE variant = "server" ->
                 LET f == Lookup(Forward, "data")
                     b == Lookup(Backward, "data")
                 IN  /\ Lookup(Forward, "success") = JBool(TRUE)
                     /\ Lookup(Backward, "success") = JBool(TRUE)
                     /\ Lookup(f, "driver1") = Lookup(b, "driver2")
                     /\ Lookup(f, "driver2") = Lookup(b, "driver1")
                     /\ Lookup(f, "analysis") = Lookup(b, "analysis")
            [] variant = "generic" ->
                 LET lines == gen_stat_lines(Driver1, Driver2)
                     n1 == Lookup(Driver1, "name")
                     n2 == Lookup(Driver2, "name")
                 IN  /\ Forward = ComparisonText(n1, n2, lines)
                     /\ Backward = ComparisonText(n2, n1, lines)
            [] OTHER ->
                 /\ Lookup(Forward, "driver1") = Lookup(Backward, "driver2")
                 /\ Lookup(Forward, "driver2") = Lookup(Backward, "driver1")
                 /\ \A s \in ComparedStats :
                       WinnerName(Forward, s) = WinnerName(Backward, s)

\* claude_server.py has compared Lewis Hamilton with Max Verstappen over the
\* second document: two ties, one statistic won by each
C9_Witness ==
    /\ variant = "claude_server"
    /\ CompareCall
    /\ F1_DATA = DocAlt
    /\ Driver1Id = "lewis_hamilton"
    /\ Driver2Id = "max_verstappen"
    /\ Lookup(last.out, "comparisons")
         = JDict(<< <<"world_championships", JStr("equal")>>,
                    <<"race_wins", JStr("driver1")>>,
                    <<"pole_positions", JStr("equal")>>,
                    <<"fastest_laps", JStr("driver2")>> >>)

(***************************************************************************)
(* C10  For two present ids and each compared statistic, compare_drivers   *)
(* reports a tie exactly when the two integer values are identical, and    *)
(* otherwise reports the driver whose value is strictly higher: as the     *)
(* label equal / driver1 / driver2 (claude_server.py, resources, prompts), *)
(* as "Equal" or the winner's name (server.py), as the line "Equal (v)" or *)
(* "name (higher vs lower)" (generic).                                     *)
(***************************************************************************)
\* the line the generic server is to print for statistic s
StatLine(s) ==
    LET v1 == Lookup(Driver1, s).v
        v2 == Lookup(Driver2, s).v
    IN  IF v1 = v2 THEN JStr("Equal (" \o ToString(v1) \o ")")
        ELSE IF v1 > v2
        THEN JStr(Lookup(Driver1, "name").v \o " (" \o ToString(v1) \o " vs "
                  \o ToString(v2) \o ")")
        ELSE JStr(Lookup(Driver2, "name").v \o " (" \o ToString(v2) \o " vs "
                  \o ToString(v1) \o ")")

C10_TieIffEqualValues ==
    CompareCall
    => CASE variant = "server" ->
              LET analysis == Lookup(Lookup(Forward, "data"), "analysis") IN
              /\ DictKeys(analysis) = <<"more_championships", "more_wins", "more_poles">>
              /\ \A k \in DOMAIN AnalysisStat :
                    LET v1 == Lookup(Driver1, AnalysisStat[k]).v
                        v2 == Lookup(Driver2, AnalysisStat[k]).v
                    IN  Lookup(analysis, k)
                          = IF v1 = v2 THEN JStr("Equal")
                            ELSE IF v1 > v2 THEN Lookup(Driver1, "name")
                            ELSE Lookup(Driver2, "name")
         [] variant = "generic" ->
              Forward = ComparisonText(Lookup(Driver1, "name"), Lookup(Driver2, "name"),
                                       <<StatLine("world_championships"),
                                         StatLine("race_wins"),
                                         StatLine("pole_positions"),
                                         StatLine("fastest_laps")>>)
         [] OTHER ->
              /\ DictKeys(Lookup(Forward, "comparisons"))
                   = <<"world_championships", "race_wins", "pole_positions",
                       "fastest_laps">>
              /\ \A s \in ComparedStats :
                    LET v1 == Lookup(Driver1, s).v
                        v2 == Lookup(Driver2, s).v
                    IN  Lookup(Lookup(Forward, "comparisons"), s)
                          = JStr(IF v1 = v2 THEN "equal"
                                 ELSE IF v1 > v2 THEN "driver1" ELSE "driver2")

\* the generic server has compared Lewis Hamilton with Max Verstappen over
\* the second document and printed two ties and two wins
C10_Witness ==
    /\ variant = "generic"
    /\ CompareCall
    /\ F1_DATA = DocAlt
    /\ last.out = ComparisonText(JStr("Lewis Hamilton"), JStr("Max Verstappen"),
                                 <<JStr("Equal (7)"),
                                   JStr("Lewis Hamilton (105 vs 99)"),
                                   JStr("Equal (104)"),
                                   JStr("Max Verstappen (70 vs 67)")>>)

(***************************************************************************)
(* What the properties of failed comparisons and of list_all_data read     *)
(***************************************************************************)
\* text holds word as a run of consecutive characters
Mentions(text, word) ==
    \E i \in 1..(Len(text) - Len(word) + 1) : SubSeq(text, i, i + Len(word) - 1) = word

\* the keys of table tbl of the active snapshot, none when it has no such table
TableKeys(tbl) ==
    IF HasTable(F1_DATA, tbl)
    THEN [i \in 1..Len(Lookup(F1_DATA, tbl).v) |-> JStr(Lookup(F1_DATA, tbl).v[i][1])]
    ELSE <<>>

\* the last event is compare_drivers (the tool) called with two ids of which
\* at least one is no key of the drivers table, and it returned
CompareMissCall ==
    /\ last.op = "compare_drivers"
    /\ last.args.t = "dict"
    /\ HasKey(last.args, "driver1_id")
    /\ HasKey(last.args, "driver2_id")
    /\ HasTable(F1_DATA, "drivers")
    /\ \/ ~HasKey(Lookup(F1_DATA, "drivers"), Driver1Id)
       \/ ~HasKey(Lookup(F1_DATA, "drivers"), Driver2Id)
    /\ ~IsRaise(last.out)

\* the text in which a failed compare_drivers says what went wrong
CompareErrorText ==
    IF variant = "server" THEN Lookup(SrvResult, "error").v
    ELSE IF variant = "generic" THEN last.out.v
    ELSE Lookup(last.out, "error").v

(***************************************************************************)
(* C11  The result of compare_drivers holds a winner-or-tie for exactly    *)
(* the four statistics world_championships, race_wins, pole_positions and  *)
(* fastest_laps, in every server.  server.py violates it: its "analysis"   *)
(* has three entries and none for fastest laps.                            *)
(***************************************************************************)
C11_FourStatisticsCompared ==
    CompareCall
    => CASE variant = "server" ->
              LET analysis == Lookup(Lookup(Forward, "data"), "analysis") IN
              /\ DictKeys(Lookup(Forward, "data")) = <<"driver1", "driver2", "analysis">>
              /\ Len(analysis.v) = 4
         [] variant = "generic" ->
              Forward = ComparisonText(Lookup(Driver1, "name"), Lookup(Driver2, "name"),
                                       <<StatLine("world_championships"),
                                         StatLine("race_wins"),
                                         StatLine("pole_positions"),
                                         StatLine("fastest_laps")>>)
         [] OTHER ->
              /\ DictKeys(Forward) = <<"driver1", "driver2", "comparisons">>
              /\ DictKeys(Lookup(Forward, "comparisons"))
                   = <<"world_championships", "race_wins", "pole_positions",
                       "fastest_laps">>

(***************************************************************************)
(* C12  When compare_drivers is given an id that is no key of the drivers  *)
(* table, the failure it returns names every such id among its two inputs  *)
(* and names no input that is a key.  claude_server.py violates it with    *)
(* the fixed text "One or both driver IDs not found."; server.py and the   *)
(* generic server name only the first missing id.                          *)
(***************************************************************************)
C12_FailureNamesMissingIds ==
    CompareMissCall
    => \A id \in {Driver1Id, Driver2Id} :
          Mentions(CompareErrorText, id) <=> ~HasKey(Lookup(F1_DATA, "drivers"), id)

(***************************************************************************)
(* C13  compare_drivers given an id that is no key of the drivers table    *)
(* returns an error indicator together with the valid driver ids of the    *)
(* snapshot, as the get tools do.  Only the prompt compare_drivers of      *)
(* claude_server_prompts.py does; the tools return the error alone.        *)
(***************************************************************************)
\* the failed comparison of the last event lists id among the valid ids
ListsValidId(id) ==
    IF variant \in {"server", "generic"} THEN Mentions(CompareErrorText, id.v)
    ELSE \E k \in {"available", "available_drivers"} :
            /\ HasKey(last.out, k)
            /\ Lookup(last.out, k).t = "list"
            /\ \E i \in 1..Len(Lookup(last.out, k).v) : Lookup(last.out, k).v[i] = id

C13_FailedCompareListsValidIds ==
    CompareMissCall
    => /\ variant = "server" => Lookup(SrvResult, "success") = JBool(FALSE)
       /\ variant \in {"claude_server", "resources", "prompts"} => HasKey(last.out, "error")
       /\ \A i \in 1..Len(TableKeys("drivers")) : ListsValidId(TableKeys("drivers")[i])

(***************************************************************************)
(* C14  list_all_data never fails and returns three id lists that are the  *)
(* keys of the drivers, teams and circuits tables of the active snapshot,  *)
(* each id once.  claude_server.py violates it on a snapshot without the   *)
(* tables (see C4): F1_DATA["drivers"] raises KeyError.                    *)
(***************************************************************************)
C14_ListAllDataGivesKeys ==
    (last.op = "list_all_data" /\ last.args = NoArgs)
    => /\ ~IsRaise(last.out)
       /\ LET lists == JDict(<< <<"drivers", JList(TableKeys("drivers"))>>,
                                <<"teams", JList(TableKeys("teams"))>>,
                                <<"circuits", JList(TableKeys("circuits"))>> >>)
          IN  CASE variant = "server" ->
                     SrvResult = JDict(<< <<"success", JBool(TRUE)>>, <<"data", lists>> >>)
                [] variant = "generic" ->
                     last.out = JStr("\nDrivers: " \o CommaSeparated(TableKeys("drivers"))
                                     \o "\n\nTeams: " \o CommaSeparated(TableKeys("teams"))
                                     \o "\n\nCircuits: "
                                     \o CommaSeparated(TableKeys("circuits")) \o "\n")
                [] OTHER -> last.out = lists

(***************************************************************************)
(* C15  An operation sees one snapshot in full, the one before or the one  *)
(* after a reload, never parts of both: the three id lists list_all_data   *)
(* of claude_server_resources.py returns are the keys of one snapshot, and *)
(* the membership tests, names and outcomes of compare_drivers are those   *)
(* of one snapshot.  The handlers are coroutines that never suspend, so a  *)
(* reload_data runs before or after them.                                  *)
(***************************************************************************)
\* the keys of table tbl of snapshot S, none when S has no such table
KeysIn(S, tbl) ==
    IF S.t = "dict" /\ HasKey(S, tbl) /\ Lookup(S, tbl).t = "dict"
    THEN JList([i \in 1..Len(Lookup(S, tbl).v) |-> JStr(Lookup(S, tbl).v[i][1])])
    ELSE JList(<<>>)

\* out is what list_all_data returns when all it reads is snapshot S
ListsOf(S, out) ==
    out = JDict(<< <<"drivers", KeysIn(S, "drivers")>>,
                   <<"teams", KeysIn(S, "teams")>>,
                   <<"circuits", KeysIn(S, "circuits")>> >>)

\* out is what compare_drivers(a, b) returns when all it reads is snapshot S
ComparisonOf(S, out, a, b) ==
    /\ HasTable(S, "drivers")
    /\ LET drivers == Lookup(S, "drivers") IN
       IF HasKey(drivers, a) /\ HasKey(drivers, b)
       THEN /\ out.t = "dict"
            /\ HasKey(out, "comparisons")
            /\ Lookup(out, "driver1") = Lookup(Lookup(drivers, a), "name")
            /\ Lookup(out, "driver2") = Lookup(Lookup(drivers, b), "name")
            /\ \A s \in ComparedStats :
                  LET v1 == Lookup(Lookup(drivers, a), s).v
                      v2 == Lookup(Lookup(drivers, b), s).v
                  IN  Lookup(Lookup(out, "comparisons"), s)
                        = JStr(IF v1 = v2 THEN "equal"
                               ELSE IF v1 > v2 THEN "driver1" ELSE "driver2")
       ELSE out = JDict(<< <<"error", JStr("One or both driver IDs not found.")>> >>)

HoldsInt(d, n) == \E i \in 1..Len(d.v) : d.v[i][2] = JInt(n)

C16_FourAgainstSeven ==
    (/\ CompareCall
     /\ Driver1Id = "max_verstappen"
     /\ Driver2Id = "lewis_hamilton"
     /\ Lookup(Driver1, "world_championships") = JInt(4)
     /\ Lookup(Driver2, "world_championships") = JInt(7))
    => CASE variant = "server" ->
              LET data == Lookup(Forward, "data") IN
              /\ Lookup(Lookup(data, "analysis"), "more_championships")
                   = JStr("Lewis Hamilton")
              /\ Lookup(Lookup(data, "driver1"), "world_championships") = JInt(4)
              /\ Lookup(Lookup(data, "driver2"), "world_championships") = JInt(7)
         [] variant = "generic" ->
              Mentions(Forward.v, "World Championships: Lewis Hamilton (7 vs 4)")
         [] OTHER ->
              /\ Lookup(Lookup(Forward, "comparisons"), "world_championships")
                   = JStr("driver2")
              /\ Lookup(Forward, "driver2") = JStr("Lewis Hamilton")
              /\ \E d \in {Forward, Lookup(Forward, "comparisons")} :
                    HoldsInt(d, 7) /\ HoldsInt(d, 4)

(***************************************************************************)
(* The clients: what a run has done, read off its log                      *)
(***************************************************************************)
\* the client is back at the prompt after it has handled the reply to a
\* question: the log holds the line read, the first model call, and what
\* was done with the reply
ReplyHandled == pc = "prompt" /\ Len(log) >= 2 /\ log[2].e = "create"

\* the tool invocations the model's reply asked for
Requested == log[2].b.v

\* what the provider gives for a request
ToolResultOf(r) ==
    JText(handle_call_tool(F1_DATA, [name |-> r.name, arguments |-> r.input]).v)

\* how many entries of the log are of one of the kinds
Count(kinds) == Cardinality({i \in 1..Len(log) : log[i].e \in kinds})

\* the line is quit in any capitalisation with only blanks around it
IsQuitLine(line) ==
    \E n \in 0..Len(line) :
       /\ Len(line) >= n + 4
       /\ \A i \in 1..n : line[i] \in {" ", "\t"}
       /\ line[n + 1] \in {"q", "Q"}
       /\ line[n + 2] \in {"u", "U"}
       /\ line[n + 3] \in {"i", "I"}
       /\ line[n + 4] \in {"t", "T"}
       /\ \A i \in (n + 5)..Len(line) : line[i] \in {" ", "\t"}

\* C17: in both clients, once the reply to a question has been handled, no
\* tool was called before the model's reply, and for every tool invocation
\* the reply asked for the client has called that tool with the supplied
\* arguments, then sent that tool's result back to the model, then printed
\* the final answer
C17_ToolRequestsAreServed ==
    ReplyHandled =>
       /\ \A i \in 1..Len(log) : log[i].e = "call_tool" => i > 2
       /\ \A n \in 1..Len(Requested) :
             LET r == Requested[n] IN
             \E i, j, k \in 3..Len(log) :
                /\ i < j
                /\ j < k
                /\ log[i] = Entry("call_tool", JStr(r.name), r.input)
                /\ log[j] = Entry("follow_up", JStr(r.id), ToolResultOf(r))
                /\ log[k].e = "print"

\* C18: a client started without the positional argument never launches the
\* provider, never calls the model, never reads a question, and ends
\* normally with the usage line as the one thing it has printed
C18_NoArgumentPrintsUsage ==
    Len(argv) < 2 =>
       /\ proc = "stopped"
       /\ pc \in {"import", "main", "exited"}
       /\ Count({"launch", "input", "create", "follow_up", "call_tool"}) = 0
       /\ pc = "exited" =>
             /\ Len(log) = 1
             /\ log[1].e = "print"
             /\ Mentions(log[1].a.v, "Usage: python")

\* C19: after a line has been read at the prompt, the loop has ended if and
\* only if the line is quit once the blanks around it are dropped and it is
\* lower-cased; when it ended, no model call and no tool call was made; for
\* every other line there is no model call before the question is asked and
\* exactly one first model call from then on, the client being back at the
\* prompt (where only end-of-input can stop it)
C19_QuitEndsTheLoop ==
    (Len(log) >= 1 /\ log[1].e = "input") =>
       IF IsQuitLine(log[1].a.v)
       THEN pc = "exited" /\ Len(log) = 1
       ELSE /\ pc \in {"ask", "handle", "prompt", "crashed"}
            /\ pc = "ask" => Count({"create"}) = 0
            /\ pc \in {"handle", "prompt", "crashed"} => Count({"create"}) = 1
            /\ pc = "crashed" =>
                  log[Len(log)] = Entry("traceback", JStr("EOFError"), JNull)

\* C19 witness: the line blank, tab, QUIT, blank has ended the loop, and the
\* line is all the run has in its log
C19_Witness ==
    /\ pc = "exited"
    /\ log = <<Entry("input", Chars(<<" ", "\t", "Q", "U", "I", "T", " ">>), JNull)>>

\* C20: once the provider is launched and the question loop entered, a run
\* that is over has ended normally, whether the loop was left on quit or the
\* input ended while the client waited for a question
C20_LoopEndsNormally ==
    (proc = "running" /\ pc \notin {"prompt", "ask", "handle"}) => pc = "exited"

(***************************************************************************)
(* Reloading from a file that cannot be read as a document                 *)
(***************************************************************************)
\* the contents of f1_data.json that are not a JSON document: bytes that are
\* not UTF-8, and JSON text cut short
MalformedFiles == {"undecodable", "truncated"}

\* this step is a reload_data that asks for the reload: confirmed in
\* claude_server.py, any call in the other file-backed servers
ReloadAttempt ==
    /\ ReloadStep
    /\ variant = "claude_server" => Confirmed(last'.args)

\* the last event is a get on table tbl of a file-backed server, whatever
\* the id asked for
GetOn(tbl) ==
    IF variant = "generic"
    THEN /\ last.op = "get_info"
         /\ Lookup(last.args, "entity_type").v
              = (IF tbl = "drivers" THEN "driver"
                 ELSE IF tbl = "teams" THEN "team" ELSE "circuit")
    ELSE variant # "server" /\ GetCallOn(tbl)

\* the id the last get asked for
GetId(tbl) ==
    IF variant = "generic" THEN Lookup(last.args, "entity_id").v ELSE RequestedId(tbl)

\* the last get answered not found and listed no id
NotFoundNothingListed(tbl) ==
    IF variant = "generic"
    THEN last.out = JStr(Noun(tbl) \o " '" \o GetId(tbl) \o "' not found. Available "
                         \o tbl \o ": ")
    ELSE /\ last.out.t = "dict"
         /\ DictKeys(last.out)
              = <<"error", IF variant = "resources" THEN "available_" \o tbl
                           ELSE "available">>
         /\ Lookup(last.out, "error").t = "str"
         /\ Mentions(Lookup(last.out, "error").v, "not found")
         /\ Lookup(last.out, DictKeys(last.out)[2]) = JList(<<>>)

\* C21: a reload that is asked for while f1_data.json is missing or is not a
\* JSON document leaves the empty snapshot as F1_DATA and returns the text
\* that says the data was reloaded successfully; and over the empty
\* snapshot every get on a driver, team or circuit answers not found with
\* no id listed
C21_BadFileReloadEmptiesSnapshot ==
    /\ [][(ReloadAttempt /\ file \in {"missing"} \cup MalformedFiles)
          => /\ F1_DATA' = EmptySnapshot
             /\ last'.out.t = "str"
             /\ Mentions(last'.out.v, "reloaded successfully")]_vars
    /\ [](\A tbl \in TableNames :
            (F1_DATA = EmptySnapshot /\ GetOn(tbl)) => NotFoundNothingListed(tbl))

(***************************************************************************)
(* server.py: the tools it has and the data it keeps                       *)
(***************************************************************************)
\* the five tools of server.py
FiveTools ==
    {"get_driver_info", "get_team_info", "get_circuit_info", "compare_drivers",
     "list_all_data"}

\* the handler's result says the tool is unknown
SaysUnknownTool(res) ==
    /\ res.t = "dict"
    /\ HasKey(res, "error")
    /\ Lookup(res, "error").t = "str"
    /\ Mentions(Lookup(res, "error").v, "Unknown tool")

\* C22: in server.py F1_DATA is the built-in data after any sequence of
\* invocations; the tools announced are the five tools; a call of one of the
\* five is never answered with unknown tool, and a call of any other name,
\* reload_data included, is answered with success false and the error
\* "Unknown tool: <name>"
C22_ServerDataIsConstant ==
    variant = "server" =>
       /\ F1_DATA = BUILTIN_F1_DATA
       /\ {handle_list_tools[i] : i \in 1..Len(handle_list_tools)} = FiveTools
       /\ IsInvocation =>
             IF last.op \in FiveTools
             THEN ~SaysUnknownTool(SrvResult)
             ELSE SrvResult = JDict(<< <<"success", JBool(FALSE)>>,
                                       <<"error", JStr("Unknown tool: " \o last.op)>> >>)

\* C22 witness: server.py has been asked twice, the second time for
\* reload_data; it has answered unknown tool and still holds the built-in
\* data
C22_Witness ==
    /\ variant = "server"
    /\ calls = 2
    /\ last.op = "reload_data"
    /\ SaysUnknownTool(SrvResult)
    /\ Lookup(F1_DATA, "drivers") = Lookup(BUILTIN_F1_DATA, "drivers")

(***************************************************************************)
(* claude_server_resources.py against claude_server.py                     *)
(***************************************************************************)
\* the ids asked for in each table
TableIds(tbl) ==
    IF tbl = "drivers" THEN DriverIds
    ELSE IF tbl = "teams" THEN TeamIds ELSE CircuitIds

\* the get tool of table tbl in claude_server.py
DirectGet(F, tbl, id) ==
    IF tbl = "drivers" THEN cs_get_driver_info(F, id)
    ELSE IF tbl = "teams" THEN cs_get_team_info(F, id)
    ELSE cs_get_circuit_info(F, id)

\* the get tool of table tbl in claude_server_resources.py
ResourcesGet(F, tbl, id) ==
    IF tbl = "drivers" THEN res_get_driver_info(F, id)
    ELSE IF tbl = "teams" THEN res_get_team_info(F, id)
    ELSE res_get_circuit_info(F, id)

\* both servers return, and return a failure result
BothFail(d, r) ==
    /\ ~IsRaise(d)
    /\ ~IsRaise(r)
    /\ d.t = "dict"
    /\ r.t = "dict"
    /\ HasKey(d, "error")
    /\ HasKey(r, "error")

\* C23: over every snapshot the two servers can hold, and for every id, the
\* get tools of claude_server_resources.py and of claude_server.py return
\* the same record when the id is a key of the table, and failure results
\* with the same list of ids when it is not; list_all_data returns the same
\* three id lists
C23_ResourcesToolsAgreeWithDirect ==
    (variant \in {"claude_server", "resources"} /\ proc = "running") =>
       /\ \A tbl \in TableNames : \A id \in TableIds(tbl) :
             LET d == DirectGet(F1_DATA, tbl, id)
                 r == ResourcesGet(F1_DATA, tbl, id)
             IN  IF HasTable(F1_DATA, tbl) /\ HasKey(Lookup(F1_DATA, tbl), id)
                 THEN /\ d = Lookup(Lookup(F1_DATA, tbl), id)
                      /\ ~IsRaise(r)
                      /\ r = d
                 ELSE /\ BothFail(d, r)
                      /\ HasKey(d, "available")
                      /\ HasKey(r, "available_" \o tbl)
                      /\ Lookup(d, "available") = Lookup(r, "available_" \o tbl)
       /\ LET d == cs_list_all_data(F1_DATA)
              r == res_list_all_data(F1_DATA, F1_DATA, F1_DATA)
          IN  ~IsRaise(d) /\ ~IsRaise(r) /\ d = r

(***************************************************************************)
(* The clients: which of the requested tools are called                    *)
(***************************************************************************)
\* the tool calls and follow-up model calls of the current question, in the
\* order they were made
ToolTraffic == SelectSeq(log, LAMBDA en : en.e \in {"call_tool", "follow_up"})

\* serving the requests reqs one after the other: each tool called with its
\* arguments, then the follow-up model call with that tool's result
Served(reqs) ==
    [i \in 1..(2 * Len(reqs)) |->
       LET r == reqs[(i + 1) \div 2] IN
       IF i % 2 = 1 THEN Entry("call_tool", JStr(r.name), r.input)
       ELSE Entry("follow_up", JStr(r.id), ToolResultOf(r))]

\* C24: gpt_client.py never calls more than one tool for a question; once it
\* has handled a reply it has served the first tool call of the reply and
\* no other, with one follow-up model call, and it has served none when the
\* reply carries text; claude_api.py has served every tool_use block of the
\* reply once, in the order of the reply, each with its own follow-up model
\* call
C24_ToolsCalledPerQuestion ==
    /\ script = "gpt_client" => Count({"call_tool"}) <= 1 /\ Count({"follow_up"}) <= 1
    /\ (ReplyHandled /\ script = "gpt_client") =>
          ToolTraffic = Served(IF response.content \notin {JNull, JStr("")}
                                  \/ Len(Requested) = 0
                               THEN <<>>
                               ELSE <<Requested[1]>>)
    /\ (ReplyHandled /\ script = "claude_api") => ToolTraffic = Served(Requested)

\* C24 witness: gpt_client.py is back at the prompt after a reply without
\* text that asked for two tools, and has called one
C24_Witness ==
    /\ ReplyHandled
    /\ script = "gpt_client"
    /\ response.content = JNull
    /\ Len(Requested) = 2
    /\ Count({"call_tool"}) = 1

(***************************************************************************)
(* claude_server_prompts.py: the f1://stats/summary resource               *)
(***************************************************************************)
\* the items of table tbl of the snapshot, none when it has no such table
ItemsOf(tbl) ==
    IF F1_DATA.t = "dict" /\ HasKey(F1_DATA, tbl) /\ Lookup(F1_DATA, tbl).t = "dict"
    THEN Lookup(F1_DATA, tbl).v
    ELSE <<>>

\* the championships of a driver record, 0 when it does not say
Championships(rec) ==
    IF rec.t = "dict" /\ HasKey(rec, "world_championships")
    THEN Lookup(rec, "world_championships").v
    ELSE 0

\* the championships of the first n drivers together
RECURSIVE ChampionshipsUpTo(_)
ChampionshipsUpTo(n) ==
    IF n = 0 THEN 0
    ELSE ChampionshipsUpTo(n - 1) + Championships(ItemsOf("drivers")[n][2])

\* C25: whatever the snapshot, a read of f1://stats/summary returns, never
\* fails, and reports the sizes of the three tables as the counts, the sum of
\* the drivers' championships as total_championships_tracked, and as
\* most_successful_driver the first driver in stored order whose
\* championships no driver exceeds; with no driver it reports id none, name
\* N/A and 0 championships
C25_StatsSummaryMatchesTables ==
    (variant = "prompts" /\ last.op = "f1://stats/summary") =>
       /\ ~IsRaise(last.out)
       /\ LET summary == Lookup(json_loads(last.out.v), "summary")
              drivers == ItemsOf("drivers")
              best == Lookup(summary, "most_successful_driver")
          IN  /\ Lookup(summary, "drivers_count") = JInt(Len(drivers))
              /\ Lookup(summary, "teams_count") = JInt(Len(ItemsOf("teams")))
              /\ Lookup(summary, "circuits_count") = JInt(Len(ItemsOf("circuits")))
              /\ Lookup(summary, "total_championships_tracked")
                   = JInt(ChampionshipsUpTo(Len(drivers)))
              /\ IF Len(drivers) = 0
                 THEN best = JDict(<< <<"id", JStr("none")>>, <<"name", JStr("N/A")>>,
                                      <<"championships", JInt(0)>> >>)
                 ELSE \E i \in 1..Len(drivers) :
                         /\ Lookup(best, "id") = JStr(drivers[i][1])
                         /\ Lookup(best, "championships")
                              = JInt(Championships(drivers[i][2]))
                         /\ \A j \in 1..Len(drivers) :
                               Championships(drivers[j][2]) <= Championships(drivers[i][2])
                         /\ \A j \in 1..(i - 1) :
                               Championships(drivers[j][2]) < Championships(drivers[i][2])

====
